---- MODULE Spec2Model ----
(***************************************************************************)
(* Model of the browsing agent of EAG-V2-S7:                               *)
(*   - Agent.processQuery and Agent.executePlan (the plan executor),       *)
(*   - DecisionModule (plan generation, decideNextAction, error recovery), *)
(*   - ActionModule (tool results),                                        *)
(*   - MemoryManager (addMemory / saveToStorage against chrome.storage).   *)
(* Specification Spec runs the agent; SpecStore runs concurrent addMemory  *)
(* calls against one store.                                                *)
(***************************************************************************)
EXTENDS Integers, Sequences, FiniteSets, TLC

(***************************************************************************)
(* Program constants and model bounds                                      *)
(***************************************************************************)
\* Agent.maxExecutionSteps, set in the constructor.
maxExecutionSteps == 5

\* Longest plan handed directly to executePlan.
MaxSteps == 3

\* Most result items one search answer carries.
MaxResults == 1

\* Number of concurrent addMemory callers on one store.
NumWriters == 2

\* Concurrent getEmbedding calls on one embedding service.
NumCalls == 2

\* Memories in a store that search is called on.
MaxMemories == 3

\* addMemory calls in a run of addMemory, search and getStats calls.
MaxAdds == 2

\* Planner calls (createPlan, createBasicPlan, createFallbackPlan) in a run.
MaxPlanCalls == 3

\* Runs of processPage and of the page processor on one page.
MaxPageRuns == 2

\* processPage's minimum content length.
minContentLength == 100

\* Sentences of a text handed to the background embedding service.
MaxSentences == 3

\* Nested getChunked3072DEmbedding calls the call stack has room for.
MaxDepth == 2

\* Components of an embedding whose values the model keeps.
Components == 2

\* getGemini3072DEmbedding: texts above this size in bytes are chunked.
chunkingThreshold == 35000

\* getChunked3072DEmbedding: a chunk is closed when the next sentence would
\* take it above this size in bytes.
chunkLimit == 30000

\* Step results recorded before a decideNextAction call made on its own.
MaxRecorded == 2

\* NavigationManager.waitForTabLoad: the default timeout and the delay of
\* the next poll, in milliseconds.
timeout == 10000
pollInterval == 500

\* JavaScript null / undefined for a step cursor.
NULL == "<null>"

(***************************************************************************)
(* Steps and plans                                                         *)
(***************************************************************************)
StepTypes == {"search", "navigation", "highlight", "analysis", "unknown"}

\* A step of a plan. hasParams is FALSE when step.parameters is undefined.
Step(id, type, deps, hasParams) ==
  [id |-> id, type |-> type, dependencies |-> deps, hasParams |-> hasParams]

\* Variant: the fallback plan's navigation step does not wait for the search.
createFallbackPlan_NoDependency ==
  [type  |-> "search",
   steps |-> << Step("1", "search", << >>, TRUE),
                Step("2", "navigation", << >>, TRUE) >>]

\* DecisionModule.createFallbackPlan: search '1', then navigation '2' that
\* depends on '1'.
createFallbackPlan ==
  [type  |-> "search",
   steps |-> << Step("1", "search", << >>, TRUE),
                Step("2", "navigation", << "1" >>, TRUE) >>]

\* PlanningEngine.initializeTemplates: the two stored templates (parameters
\* are absent from the stored templates).
planTemplates ==
  [search_navigate |->
     [type  |-> "search_navigate",
      steps |-> << Step("search", "search", << >>, FALSE),
                   Step("navigate", "navigation", << "search" >>, FALSE) >>],
   deep_analysis |->
     [type  |-> "deep_analysis",
      steps |-> << Step("search", "search", << >>, FALSE),
                   Step("analyze", "analysis", << "search" >>, FALSE),
                   Step("navigate_best", "navigation", << "analyze" >>, FALSE),
                   Step("highlight", "highlight", << "navigate_best" >>, FALSE) >>]]

\* PlanningEngine.determinePlanType: rule precedence over intent and the
\* number of entities.
determinePlanType(analysis) ==
  IF analysis.intent = "information" THEN "search_navigate"
  ELSE IF analysis.intent \in {"learning", "research"} THEN "deep_analysis"
  ELSE IF analysis.entities > 2 THEN "deep_analysis"
  ELSE "search_navigate"

\* PlanningEngine.customizeTemplate: a copy of the template in which every
\* step whose tool is one of the four known tools receives parameters.
customizeTemplate(template) ==
  [type  |-> template.type,
   steps |-> [i \in 1..Len(template.steps) |->
                [template.steps[i] EXCEPT !.hasParams = TRUE]]]

\* PlanningEngine.createPlan: the template is always found, so the basic
\* plan is never built.
createPlan(analysis) ==
  LET planType == determinePlanType(analysis)
  IN  [type  |-> planType,
       steps |-> customizeTemplate(planTemplates[planType]).steps]

(***************************************************************************)
(* PlanningEngine in full: steps with their tool and parameters            *)
(***************************************************************************)
\* step.parameters of a step that has none (undefined).
NoParameters == [undefined |-> TRUE]

\* A step as the planning engine holds it.
PlanStep(id, type, tool, deps, parameters) ==
  [id |-> id, type |-> type, tool |-> tool, dependencies |-> deps,
   parameters |-> parameters]

\* Variant: the search_navigate template lists its navigation step first.
initializeTemplates_NavigateFirst ==
  [search_navigate |->
     [type  |-> "search_navigate",
      steps |-> << PlanStep("navigate", "navigation", "navigate_to_page",
                            << "search" >>, NoParameters),
                   PlanStep("search", "search", "search_web_memory", << >>,
                            NoParameters) >>],
   deep_analysis |->
     [type  |-> "deep_analysis",
      steps |-> << PlanStep("search", "search", "search_web_memory", << >>,
                            NoParameters),
                   PlanStep("analyze", "analysis", "analyze_results",
                            << "search" >>, NoParameters),
                   PlanStep("navigate_best", "navigation", "navigate_to_page",
                            << "analyze" >>, NoParameters),
                   PlanStep("highlight", "highlight", "highlight_text",
                            << "navigate_best" >>, NoParameters) >>]]

\* PlanningEngine.initializeTemplates: the Map the constructor fills, keyed
\* by plan type.
initializeTemplates ==
  [search_navigate |->
     [type  |-> "search_navigate",
      steps |-> << PlanStep("search", "search", "search_web_memory", << >>,
                            NoParameters),
                   PlanStep("navigate", "navigation", "navigate_to_page",
                            << "search" >>, NoParameters) >>],
   deep_analysis |->
     [type  |-> "deep_analysis",
      steps |-> << PlanStep("search", "search", "search_web_memory", << >>,
                            NoParameters),
                   PlanStep("analyze", "analysis", "analyze_results",
                            << "search" >>, NoParameters),
                   PlanStep("navigate_best", "navigation", "navigate_to_page",
                            << "analyze" >>, NoParameters),
                   PlanStep("highlight", "highlight", "highlight_text",
                            << "navigate_best" >>, NoParameters) >>]]

\* JSON.parse(JSON.stringify(template)): a new object with the template's
\* type and, step by step, the fields that JSON keeps; a field whose value
\* is undefined is absent from the copy as it is from the original.
JSONCopy(template) ==
  [type  |-> template.type,
   steps |-> [i \in 1..Len(template.steps) |->
                PlanStep(template.steps[i].id, template.steps[i].type,
                         template.steps[i].tool,
                         template.steps[i].dependencies,
                         template.steps[i].parameters)]]

\* The switch of customizeTemplate on step.tool: the parameters the step
\* has after it. A tool that is none of the four leaves them as they were.
stepParameters(step, analysis) ==
  CASE step.tool = "search_web_memory" ->
         [query |-> analysis.query,
          limit |-> IF analysis.complexity = "high" THEN 20 ELSE 10,
          type  |-> analysis.contentType]
    [] step.tool = "navigate_to_page" ->
         [url |-> "{{result.0.url}}", highlightText |-> analysis.query]
    [] step.tool = "highlight_text" ->
         [text |-> analysis.query, style |-> "search", caseSensitive |-> FALSE]
    [] step.tool = "analyze_results" ->
         [results |-> "{{search.results}}", query |-> analysis.query]
    [] OTHER -> step.parameters

\* PlanningEngine.customizeTemplate, with the analysis: the customized plan
\* it returns.
PlanningEngine_customizeTemplate(template, analysis) ==
  LET customizedPlan == JSONCopy(template)
  IN  [type  |-> customizedPlan.type,
       steps |-> [i \in 1..Len(customizedPlan.steps) |->
                    [customizedPlan.steps[i] EXCEPT
                       !.parameters = stepParameters(customizedPlan.steps[i],
                                                     analysis)]]]

\* Variant: customizeTemplate writes the parameters into the stored template
\* itself.
StoredAfterCustomize_Shared(template, customized) == customized

\* The stored template after customizeTemplate: the parameters are assigned
\* to the steps of the copy, so the stored object is not written.
StoredAfterCustomize(template, customized) == template

\* Variant: createPlan removes the template it used from the Map.
TemplatesAfterCreatePlan_Delete(tpls, planType) ==
  [t \in (DOMAIN tpls) \ {planType} |-> tpls[t]]

\* this.planTemplates after createPlan: the Map is read with get and no
\* entry is set or deleted.
TemplatesAfterCreatePlan(tpls, planType) == tpls

\* PlanningEngine.createBasicPlan: one search step.
createBasicPlan(analysis, id) ==
  [id       |-> id,
   query    |-> analysis.query,
   type     |-> "basic",
   steps    |-> << PlanStep("search", "search", "search_web_memory", << >>,
                            [query |-> analysis.query]) >>,
   priority |-> "normal"]

\* PlanningEngine.createPlan, with the stored templates and the generated
\* plan id: the plan it returns.
PlanningEngine_createPlan(tpls, analysis, id) ==
  LET planType == determinePlanType(analysis)
  IN  IF planType \notin DOMAIN tpls
      THEN createBasicPlan(analysis, id)
      ELSE [id       |-> id,
            query    |-> analysis.query,
            type     |-> planType,
            steps    |-> PlanningEngine_customizeTemplate(tpls[planType],
                                                          analysis).steps,
            priority |-> IF analysis.urgency = "high" THEN "high" ELSE "normal"]

\* DecisionModule.createFallbackPlan with the query and the generated id.
DecisionModule_createFallbackPlan(q, id) ==
  [id       |-> id,
   query    |-> q,
   type     |-> createFallbackPlan.type,
   steps    |-> << PlanStep("1", "search", "search_web_memory",
                            createFallbackPlan.steps[1].dependencies,
                            [query |-> q]),
                   PlanStep("2", "navigation", "navigate_to_page",
                            createFallbackPlan.steps[2].dependencies,
                            [url |-> "{{result.0.url}}", highlightText |-> q]) >>,
   priority |-> "normal"]

(***************************************************************************)
(* Tool results (ActionModule) and step execution (DecisionModule)         *)
(***************************************************************************)
\* Result items a search answer may carry: with or without a url field.
Items == {"withUrl", "noUrl"}

RECURSIVE SeqsUpTo(_, _)
\* All sequences over S of length at most n.
SeqsUpTo(S, n) ==
  IF n = 0 THEN { << >> }
  ELSE LET shorter == SeqsUpTo(S, n - 1)
       IN  shorter \cup { Append(q, x) : q \in { r \in shorter : Len(r) = n - 1 }, x \in S }

ResultLists == SeqsUpTo(Items, MaxResults)

\* What the collaborator behind a handler does on one call: it answers
\* (search: with a result list) or it fails.
Outcome(kind, results) == [kind |-> kind, results |-> results]

\* ToolCallResult: success defaults to false, data to null, results to [].
ToolCallResult(success, results) ==
  [thrown |-> FALSE, success |-> success,
   dataDefined |-> FALSE, resultsDefined |-> TRUE, results |-> results]

\* ActionModule.executeSearch: a failure of performSearch is caught and
\* reported as {success:false, error}.
executeSearch(o) ==
  IF o.kind = "ok" THEN ToolCallResult(TRUE, o.results)
  ELSE ToolCallResult(FALSE, << >>)

\* ActionModule.executeNavigation: a failure of navigateTo is caught and
\* reported as {success:false, error}.
executeNavigation(o) ==
  IF o.kind = "ok" THEN ToolCallResult(TRUE, << >>)
  ELSE ToolCallResult(FALSE, << >>)

\* ActionModule.executeHighlight: a failure of highlightText is caught and
\* reported as {success:false, error}.
executeHighlight(o) ==
  IF o.kind = "ok" THEN ToolCallResult(TRUE, << >>)
  ELSE ToolCallResult(FALSE, << >>)

\* A raised exception, as the value of a call.
Thrown ==
  [thrown |-> TRUE, success |-> FALSE,
   dataDefined |-> FALSE, resultsDefined |-> FALSE, results |-> << >>]

\* DecisionModule.executeAnalysisStep: always {success:true, analysis,
\* insights}; it has neither data nor results.
executeAnalysisStep ==
  [thrown |-> FALSE, success |-> TRUE,
   dataDefined |-> FALSE, resultsDefined |-> FALSE, results |-> << >>]

\* DecisionModule.executeStep with executeSearchStep, executeNavigationStep
\* and executeHighlightStep: reading step.parameters.<field> raises when
\* parameters is undefined; an unknown type raises.
executeStep(step, o) ==
  CASE step.type = "search" ->
         IF step.hasParams THEN executeSearch(o) ELSE Thrown
    [] step.type = "navigation" ->
         IF step.hasParams THEN executeNavigation(o) ELSE Thrown
    [] step.type = "highlight" ->
         IF step.hasParams THEN executeHighlight(o) ELSE Thrown
    [] step.type = "analysis" -> executeAnalysisStep
    [] OTHER -> Thrown

\* The outcomes the collaborator of a step can produce.
Outcomes(step) ==
  CASE step.type = "search" /\ step.hasParams ->
         { Outcome("ok", r) : r \in ResultLists } \cup { Outcome("fail", << >>) }
    [] step.type \in {"navigation", "highlight"} /\ step.hasParams ->
         { Outcome("ok", << >>), Outcome("fail", << >>) }
    [] OTHER -> { Outcome("ok", << >>) }

\* plan.steps.findIndex(s => s.id === id): the first position, 0 if none.
FindIndex(steps, id) ==
  IF \E i \in 1..Len(steps) : steps[i].id = id
  THEN CHOOSE i \in 1..Len(steps) :
         /\ steps[i].id = id
         /\ \A j \in 1..(i - 1) : steps[j].id # id
  ELSE 0

\* Variant: after the last step the first step follows.
getNextStepId_WrapAround(p, currentStep) ==
  LET currentIndex == FindIndex(p.steps, currentStep)
  IN  IF currentIndex + 1 <= Len(p.steps) THEN p.steps[currentIndex + 1].id
      ELSE p.steps[1].id

\* DecisionModule.getNextStepId: the id of the step after the current one.
getNextStepId(p, currentStep) ==
  LET currentIndex == FindIndex(p.steps, currentStep)
  IN  IF currentIndex + 1 <= Len(p.steps) THEN p.steps[currentIndex + 1].id ELSE NULL

retryableSteps == {"search", "navigation"}

\* DecisionModule.handleStepError: retry a retryable step, else skip.
handleStepError(p, stepId) ==
  LET idx == FindIndex(p.steps, stepId)
  IN  IF idx > 0 /\ p.steps[idx].type \in retryableSteps
      THEN stepId
      ELSE getNextStepId(p, stepId)

\* Variant: a dependency counts as met as soon as it has any recorded result.
dependenciesMet_AnyResult(step, results) ==
  \A d \in 1..Len(step.dependencies) :
    \E r \in 1..Len(results) : results[r].stepId = step.dependencies[d]

\* step.dependencies.every(dep => executionResults.some(r => r.stepId === dep
\* && r.success)).
dependenciesMet(step, results) ==
  \A d \in 1..Len(step.dependencies) :
    \E r \in 1..Len(results) :
      results[r].stepId = step.dependencies[d] /\ results[r].success

\* DecisionModule.decideNextAction.
decideNextAction(p, currentStep, results, o) ==
  LET idx == FindIndex(p.steps, currentStep)
  IN  IF idx = 0
      THEN [action |-> "complete", nextStep |-> NULL, result |-> Thrown]
      ELSE LET step == p.steps[idx]
           IN  IF Len(step.dependencies) > 0 /\ ~dependenciesMet(step, results)
               THEN [action |-> "wait", nextStep |-> step.dependencies[1],
                     result |-> Thrown]
               ELSE LET res == executeStep(step, o)
                    IN  IF res.thrown
                        THEN [action |-> "error",
                              nextStep |-> handleStepError(p, currentStep),
                              result |-> res]
                        ELSE [action |-> "execute",
                              nextStep |-> getNextStepId(p, currentStep),
                              result |-> res]

(***************************************************************************)
(* Agent.executePlan                                                       *)
(***************************************************************************)
RECURSIVE CollectResults_NewestFirst(_)
\* Variant: the data of a later step result is put before that of an
\* earlier one.
CollectResults_NewestFirst(results) ==
  IF results = << >> THEN << >>
  ELSE LET head == Head(results)
       IN  CollectResults_NewestFirst(Tail(results))
             \o (IF head.success /\ head.hasData THEN head.data ELSE << >>)

RECURSIVE CollectResults(_)
\* createExecutionResult's forEach: the data of every recorded result that
\* is successful and whose data is truthy (an array, even empty, is truthy;
\* undefined is not), spread into one list.
CollectResults(results) ==
  IF results = << >> THEN << >>
  ELSE LET head == Head(results)
       IN  (IF head.success /\ head.hasData THEN head.data ELSE << >>)
             \o CollectResults(Tail(results))

\* Agent.createExecutionResult.
createExecutionResult(p, results, success, hasError) ==
  [kind          |-> "execution",
   success       |-> success,
   stepsExecuted |-> Len(results),
   totalSteps    |-> Len(p.steps),
   results       |-> CollectResults(results),
   hasError      |-> hasError]

\* The entry pushed for an 'execute' decision:
\* {stepId, success, data: result.data || result.results, error}.
ExecuteEntry(stepId, res) ==
  [stepId  |-> stepId,
   success |-> res.success,
   hasData |-> res.dataDefined \/ res.resultsDefined,
   data    |-> res.results]

\* The entry pushed for an 'error' decision: {stepId, success:false, error}.
ErrorEntry(stepId) ==
  [stepId |-> stepId, success |-> FALSE, hasData |-> FALSE, data |-> << >>]

\* Variant: a wait moves the cursor to the step the decision references.
WaitCursor_Advance(cur, d) == d.nextStep

\* case 'wait': continue -- the assignment of decision.nextStep is skipped.
WaitCursor(cur, d) == cur

\* Variant: a wait does not use up an iteration.
AttemptAfterWait_Free(a) == a

\* case 'wait': continue -- the for loop's attempt++ still runs.
AttemptAfterWait(a) == a + 1

\* One iteration of executePlan's loop body on cursor cur, with the
\* collaborator's outcome o: the decision taken and the values the
\* iteration leaves. returned says that the body returned the result ret.
ExecutePlanBody(p, cur, att, results, o) ==
  LET d == decideNextAction(p, cur, results, o)
  IN  CASE d.action = "execute" ->
             [decision |-> d, returned |-> FALSE, cursor |-> d.nextStep,
              attempt |-> att + 1,
              results |-> Append(results, ExecuteEntry(cur, d.result))]
        [] d.action = "complete" ->
             [decision |-> d, returned |-> TRUE, cursor |-> cur,
              attempt |-> att, results |-> results]
        [] d.action = "error" ->
             [decision |-> d, returned |-> FALSE, cursor |-> d.nextStep,
              attempt |-> att + 1,
              results |-> Append(results, ErrorEntry(cur))]
        [] d.action = "wait" ->
             [decision |-> d, returned |-> FALSE, cursor |-> WaitCursor(cur, d),
              attempt |-> AttemptAfterWait(att), results |-> results]

(***************************************************************************)
(* Inputs                                                                  *)
(***************************************************************************)
\* Ids of the steps of a plan handed directly to executePlan, by position.
StepIds == << "A", "B", "C", "D" >>

\* A dependency id that names no step of the plan.
DanglingId == "X"

\* The kinds of step of such a plan: each type with its parameters set, and
\* a search step whose parameters are undefined.
StepKinds ==
  { [type |-> t, hasParams |-> TRUE] : t \in StepTypes }
    \cup { [type |-> "search", hasParams |-> FALSE] }

\* Dependency lists of the step at position i: none, or the previous step;
\* for the first step: none, or an id no step carries.
DepChoices(i) ==
  IF i > 1 THEN { << >>, << StepIds[i - 1] >> } ELSE { << >>, << DanglingId >> }

RECURSIVE StepsOfLen(_)
StepsOfLen(n) ==
  IF n = 0 THEN { << >> }
  ELSE { Append(q, Step(StepIds[n], k.type, d, k.hasParams)) :
           q \in StepsOfLen(n - 1), k \in StepKinds, d \in DepChoices(n) }

\* The plans a caller hands to executePlan.
PlanUniverse ==
  { [type |-> "given", steps |-> st] :
      st \in UNION { StepsOfLen(n) : n \in 1..MaxSteps } }

\* A query, by what the code reads of it: whether it is a string (and then
\* the intent and entity count the ContextAnalyzer extracts), a value with
\* no toLowerCase (a number, undefined), or a value that cannot be
\* converted to a string (a Symbol).
Queries ==
  { [kind |-> "text", intent |-> i, entities |-> e] :
      i \in {"information", "learning", "search"}, e \in {0, 3} }
    \cup { [kind |-> "nonstring", intent |-> "none", entities |-> 0],
           [kind |-> "unprintable", intent |-> "none", entities |-> 0] }

Contexts == {"object", "null"}

NoPlan == [type |-> "none", steps |-> << >>]
NoQuery == [kind |-> "none", intent |-> "none", entities |-> 0]
NoReturn ==
  [kind |-> "none", success |-> FALSE, stepsExecuted |-> 0, totalSteps |-> 0,
   results |-> << >>, hasError |-> FALSE]
NoIteration ==
  [stepId |-> NULL, action |-> "none", failed |-> FALSE, type |-> "none",
   prior |-> << >>]

(***************************************************************************)
(* State                                                                   *)
(***************************************************************************)
VARIABLES
  pc,                \* where the agent's control is
  mode,              \* "query": processQuery; "direct": executePlan called directly
  query,             \* processQuery's query
  context,           \* processQuery's context
  hasMemoryManager,  \* whether the agent was constructed with a memory manager
  perceptionResult,  \* extractPerception's value
  currentPlan,       \* Agent.currentPlan / executePlan's plan
  currentStepId,     \* executePlan's cursor
  attempt,           \* executePlan's loop counter
  executionResults,  \* executePlan's recorded step results
  ret,               \* the value returned by processQuery / executePlan
  memories,          \* MemoryManager.memories (in memory)
  lastIteration,     \* history: the step, decision and outcome of the last iteration
  dispatches,        \* history: handler dispatches in this run
  waits,             \* history: wait decisions in this run
  raisedIn,          \* history: the stages of processQuery in which a failure was raised
  endedBy,           \* history: how executePlan's loop ended
  memoriesAtStore,   \* history: Len(memories) when storeInteraction began
  embeddings,        \* MemoryManager.embeddings (in memory)
  storage,           \* chrome.storage.local: the durable values
  pendingSets,       \* chrome.storage.local.set calls issued and not yet applied
  writer,            \* per addMemory call: its position and local values
  nextId,            \* source of generateId's unique ids
  currentProvider,   \* EmbeddingService.currentProvider
  embedCall,         \* per getEmbedding call: its position and local values
  searchInput,       \* the arguments of the last search call
  searchReturn,      \* the value returned by the last search call
  statsReturn,       \* the value returned by the last getStats call
  templates,         \* PlanningEngine.planTemplates
  planLog,           \* history: the planner calls made, with the plans they returned
  page,              \* the page a content script runs in, by what the code reads of it
  isProcessing,      \* content script: isProcessing
  windowMessages,    \* window.postMessage events not yet delivered
  embedPageMessages, \* EMBED_PAGE messages not yet handled by the background
  pageLog,           \* history: the runs of the page handlers and their outcomes
  chunkCall,         \* one getGemini3072DEmbedding call: its position, frames and history
  cosineCall,        \* the last cosineSimilarity call: implementation, arguments, value
  decideCall,        \* the last decideNextAction call made on its own: arguments, decision
  manager,           \* background: whether memoryManager is unset, loading or ready
  directCall,        \* one direct agent action: its position, action outcome and result
  listenerCall,      \* one message at the background listener: its position and answers
  searchRequest,     \* one executeSearch call: the options asked for and applied
  tabWait,           \* one waitForTabLoad call: its clock, polls and settlements
  loadResult         \* background: what initialize's storage get has read

agentVars ==
  << pc, mode, query, context, hasMemoryManager, perceptionResult, currentPlan,
     currentStepId, attempt, executionResults, ret, lastIteration, dispatches,
     waits, raisedIn, endedBy, memoriesAtStore >>

storeVars == << embeddings, storage, pendingSets, writer, nextId >>

serviceVars ==
  << currentProvider, embedCall, searchInput, searchReturn, statsReturn >>

plannerVars == << templates, planLog >>

pageVars ==
  << page, isProcessing, windowMessages, embedPageMessages, pageLog >>

\* The state of the components that are run on their own.
workerVars == << manager, loadResult >>

standaloneVars ==
  << plannerVars, pageVars, chunkCall, cosineCall, decideCall, workerVars >>

\* The calls that are followed one at a time.
callVars == << directCall, listenerCall, searchRequest, tabWait >>

componentVars == << standaloneVars, callVars >>

\* What a step of the planner leaves unchanged, besides its own state.
exceptPlanner ==
  << agentVars, memories, storeVars, serviceVars, pageVars, chunkCall,
     cosineCall, decideCall, workerVars, callVars >>

\* What a step of the page handlers leaves unchanged, besides the page state
\* and the store.
exceptPage ==
  << agentVars, serviceVars, plannerVars, chunkCall, cosineCall, decideCall,
     workerVars, callVars >>

\* What a step of the background embedding service leaves unchanged.
exceptChunk ==
  << agentVars, memories, storeVars, serviceVars, plannerVars, pageVars,
     cosineCall, decideCall, workerVars, callVars >>

\* What a cosineSimilarity call leaves unchanged.
exceptCosine ==
  << agentVars, memories, storeVars, serviceVars, plannerVars, pageVars,
     chunkCall, decideCall, workerVars, callVars >>

\* What a decideNextAction call made on its own leaves unchanged.
exceptDecide ==
  << agentVars, memories, storeVars, serviceVars, plannerVars, pageVars,
     chunkCall, cosineCall, workerVars, callVars >>

\* What a step of the background's initialization leaves unchanged, besides
\* the worker state and the in-memory collections.
exceptWorker ==
  << agentVars, storage, pendingSets, writer, nextId, serviceVars, plannerVars,
     pageVars, chunkCall, cosineCall, decideCall, callVars >>

vars == << agentVars, memories, storeVars, serviceVars, componentVars >>

(***************************************************************************)
(* Agent.processQuery: the stages                                          *)
(***************************************************************************)
\* Variant: the catch of processQuery lets the failure escape.
ProcessQueryCatch_Rethrow(q) ==
  [kind |-> "escaped", success |-> FALSE, stepsExecuted |-> 0, totalSteps |-> 0,
   results |-> << >>, hasError |-> TRUE]

\* processQuery's catch: {success:false, error, query, timestamp}.
ProcessQueryCatch(q) ==
  [kind |-> "error", success |-> FALSE, stepsExecuted |-> 0, totalSteps |-> 0,
   results |-> << >>, hasError |-> TRUE]

\* Whether reading the query as a string, or a field of the context, raises:
\* query.toLowerCase() on a non-string, context.currentUrl on null.
ReadRaises(q, ctx) == q.kind = "nonstring" \/ ctx = "null"

\* Agent.extractPerception: a failure is caught and answered with the
\* default analysis {intent:'unknown', keywords:[]}.
extractPerception(q, ctx) ==
  IF ReadRaises(q, ctx)
  THEN [raised |-> TRUE, intent |-> "unknown"]
  ELSE [raised |-> FALSE, intent |-> q.intent]

\* ContextAnalyzer.analyzeRequest.
analyzeRequest(q, ctx) ==
  IF ReadRaises(q, ctx)
  THEN [thrown |-> TRUE, intent |-> "none", entities |-> 0]
  ELSE [thrown |-> FALSE, intent |-> q.intent, entities |-> q.entities]

\* DecisionModule.generatePlan: analysis, createPlan, optimizePlan (which
\* only annotates the plan); any failure is answered with the fallback plan.
generatePlan(q, ctx) ==
  LET analysis == analyzeRequest(q, ctx)
  IN  IF analysis.thrown
      THEN [raised |-> TRUE, plan |-> createFallbackPlan]
      ELSE [raised |-> FALSE, plan |-> createPlan(analysis)]

\* plan.steps[0]?.id
FirstStepId(p) == IF Len(p.steps) > 0 THEN p.steps[1].id ELSE NULL

\* The addMemory calls storeInteraction makes when none fails: the query,
\* then, for a successful execution with results, one search_result per
\* result item that has a url.
StoreAttempts(er) ==
  << [type |-> "query", content |-> "query"] >>
    \o (IF er.success /\ Len(er.results) > 0
        THEN LET withUrl == SelectSeq(er.results, LAMBDA it : it = "withUrl")
             IN  [i \in 1..Len(withUrl) |->
                    [type |-> "search_result", content |-> withUrl[i]]]
        ELSE << >>)

\* The effect of addMemory on the in-memory collection, by how the call
\* ends: an embedding failure leaves it alone; a failed snapshot write
\* comes after the push.
AddMemoryOutcomes == {"ok", "embedFail", "saveFail"}

\* Agent.storeInteraction: the memories in the collection after it, when the
\* failAt-th addMemory (0: none) ends as failKind; the failure is caught
\* and ends the method.
storeInteraction(mems, er, failAt, failKind) ==
  LET att    == StoreAttempts(er)
      nOk    == IF failAt = 0 THEN Len(att) ELSE failAt - 1
      pushed == SubSeq(att, 1, nOk)
                  \o (IF failAt > 0 /\ failKind = "saveFail"
                      THEN << att[failAt] >> ELSE << >>)
  IN  mems \o [i \in 1..Len(pushed) |->
                 [id |-> Len(mems) + i, type |-> pushed[i].type,
                  content |-> pushed[i].content]]

(***************************************************************************)
(* Agent: actions                                                          *)
(***************************************************************************)
\* An embedding: a Float32Array of the given length; of its values the model
\* keeps the direction, an angle in degrees (with -1 for the zero vector).
Vector(length, angle) == [length |-> length, angle |-> angle]

\* embedding: null
NoVector == Vector(0, -1)

\* The providers in the order initializeProviders registers them.
Providers == << "gemini", "local", "huggingface", "openai" >>

Callers == 1..NumCalls

\* pc: where the call is; trying: the provider whose embed it awaits; next:
\* where its loop over the providers goes on; attempts: the embed calls it
\* has made with their outcomes (history); result: the provider whose vector
\* it returned.
IdleCall ==
  [pc |-> "idle", trying |-> NULL, attempts |-> << >>, next |-> 0,
   result |-> NULL]

NoSearch ==
  [called |-> FALSE, queryEmbedding |-> NoVector, embeddingFailed |-> FALSE,
   limit |-> 0, type |-> NULL, minScore |-> 0]

NoStats == [called |-> FALSE, totalMemories |-> 0, typeStats |-> << >>]

\* The embedding service after initializeProviders with the default
\* settings, and no search or getStats call made yet.
ServiceIdle ==
  /\ currentProvider = "gemini"
  /\ embedCall = [c \in Callers |-> IdleCall]
  /\ searchInput = NoSearch
  /\ searchReturn = << >>
  /\ statsReturn = NoStats

\* The planning engine after its constructor; no planner call made yet.
PlannerIdle ==
  /\ templates = initializeTemplates
  /\ planLog = << >>

\* A page in which no script has run yet.
NoPage == [skip |-> FALSE, body |-> 0, content |-> 0, advanced |-> 0]

PageIdle ==
  /\ page = NoPage
  /\ isProcessing = FALSE
  /\ windowMessages = << >>
  /\ embedPageMessages = << >>
  /\ pageLog = << >>

\* A text: the sentences text.split(/[.!?]+/) yields, each by its leading
\* blanks and its other characters, and the size of the text in bytes.
NoText == [sentences |-> << >>, size |-> 0]

\* pc: where the call is; text: the text it was called with; target: the
\* argument of the innermost getGemini3072DEmbedding; stack: the frames of
\* the getChunked3072DEmbedding calls around it; value: the value being
\* returned; fetches: the answered embedContent requests (history);
\* fetchFailed: a request failed (history); outcome: how the call ended.
IdleChunkCall ==
  [pc |-> "idle", text |-> NoText, target |-> NoText, stack |-> << >>,
   value |-> << >>, fetches |-> << >>, fetchFailed |-> FALSE,
   outcome |-> "none"]

\* A vector by its length and the values of its first components (the
\* others are 0).
Numbers(length, values) == [length |-> length, values |-> values]

\* A number a division returns: num / sqrt(den2).
Quotient(num, den2) == [kind |-> "number", num |-> num, den2 |-> den2]

\* The number 0.
Zero == Quotient(0, 1)

\* The value of a division by 0 (NaN or an infinity).
NaN == [kind |-> "NaN", num |-> 0, den2 |-> 0]

\* A raised exception as the value of a cosineSimilarity call.
CosineThrown == [kind |-> "thrown", num |-> 0, den2 |-> 0]

NoCosineCall ==
  [called |-> FALSE, impl |-> "none", vecA |-> Numbers(0, << >>),
   vecB |-> Numbers(0, << >>), value |-> Zero]

NoDecideCall ==
  [called |-> FALSE, plan |-> NoPlan, currentStep |-> NULL,
   executionResults |-> << >>,
   decision |-> [action |-> "none", nextStep |-> NULL, result |-> Thrown]]

\* initialize's chrome.storage.local.get has not read the storage yet.
NothingRead == [read |-> FALSE, memories |-> << >>, embeddings |-> << >>]

\* No direct agent action has been called.
NoDirectCall ==
  [pc |-> "idle", action |-> "none", actionResult |-> "none",
   found |-> << >>, recorded |-> "none",
   returned |-> [success |-> FALSE, results |-> << >>, caught |-> FALSE]]

\* No message has reached the listener.
NoListenerCall ==
  [pc |-> "idle", type |-> "none", handlerFailed |-> FALSE,
   settingsApplied |-> FALSE, responses |-> << >>]

\* No executeSearch call has been made.
NoSearchRequest ==
  [pc |-> "idle",
   asked   |-> [given |-> {}, limit |-> 0, type |-> NULL, minScore |-> 0],
   message |-> [type |-> "none",
                options |-> [limit |-> 0, type |-> NULL, minScore |-> 0]],
   applied |-> [limit |-> 0, type |-> NULL, minScore |-> 0],
   results |-> << >>]

\* No waitForTabLoad call has been made.
NoTabWait ==
  [called |-> FALSE, elapsed |-> 0, gets |-> 0, timers |-> 0, polls |-> 0,
   settlements |-> << >>,
   lastPoll |-> [status |-> "none", elapsed |-> 0, failed |-> FALSE,
                 settledBefore |-> FALSE, scheduled |-> 0]]

CallsIdle ==
  /\ directCall = NoDirectCall
  /\ listenerCall = NoListenerCall
  /\ searchRequest = NoSearchRequest
  /\ tabWait = NoTabWait

ComponentsIdle ==
  /\ CallsIdle
  /\ PlannerIdle
  /\ PageIdle
  /\ chunkCall = IdleChunkCall
  /\ cosineCall = NoCosineCall
  /\ decideCall = NoDecideCall
  /\ manager = "unset"
  /\ loadResult = NothingRead

Writers == 1..NumWriters

\* pc: where the call is; before: the durable snapshot when the call began;
\* saveFailed: its snapshot write was rejected (both kept as history).
IdleWriter ==
  [pc |-> "idle", id |-> 0, type |-> "none", sessionId |-> NULL,
   embedding |-> NoVector,
   before |-> [memories |-> << >>, embeddings |-> << >>],
   saveFailed |-> FALSE]

EmptyStorage == [memories |-> << >>, embeddings |-> << >>, sessionId |-> NULL]

StoreIdle ==
  /\ embeddings = << >>
  /\ storage = EmptyStorage
  /\ pendingSets = {}
  /\ writer = [w \in Writers |-> IdleWriter]
  /\ nextId = 1

AgentIdle ==
  /\ pc = "idle"
  /\ mode = "none"
  /\ query = NoQuery
  /\ context = "object"
  /\ hasMemoryManager = TRUE
  /\ perceptionResult = [raised |-> FALSE, intent |-> "none"]
  /\ currentPlan = NoPlan
  /\ currentStepId = NULL
  /\ attempt = 0
  /\ executionResults = << >>
  /\ ret = NoReturn
  /\ lastIteration = NoIteration
  /\ dispatches = 0
  /\ waits = 0
  /\ raisedIn = {}
  /\ endedBy = "none"
  /\ memoriesAtStore = 0

Init ==
  /\ AgentIdle
  /\ memories = << >>
  /\ StoreIdle
  /\ ServiceIdle
  /\ ComponentsIdle

execVars ==
  << currentStepId, attempt, executionResults, lastIteration, dispatches, waits,
     endedBy >>

\* processQuery is called: the log line, then extractPerception. A query
\* that cannot be converted to a string makes the log line raise, which
\* processQuery's catch answers.
ProcessQueryStart ==
  /\ pc = "idle"
  /\ \E q \in Queries, c \in Contexts, mm \in BOOLEAN :
       /\ query' = q
       /\ context' = c
       /\ hasMemoryManager' = mm
       /\ mode' = "query"
       /\ IF q.kind = "unprintable"
          THEN LET r == ProcessQueryCatch(q)
               IN  /\ ret' = r
                   /\ pc' = IF r.kind = "escaped" THEN "threw" ELSE "returned"
                   /\ raisedIn' = {"log"}
          ELSE /\ pc' = "perceive"
               /\ UNCHANGED << ret, raisedIn >>
  /\ UNCHANGED << perceptionResult, currentPlan, execVars, memoriesAtStore,
                  memories, storeVars >>
  /\ UNCHANGED << serviceVars, componentVars >>

\* Step 1: extractPerception.
ExtractPerception ==
  /\ pc = "perceive"
  /\ perceptionResult' = extractPerception(query, context)
  /\ raisedIn' = IF perceptionResult'.raised THEN raisedIn \cup {"perceive"} ELSE raisedIn
  /\ pc' = "retrieve"
  /\ UNCHANGED << mode, query, context, hasMemoryManager, currentPlan, execVars,
                  ret, memoriesAtStore, memories, storeVars >>
  /\ UNCHANGED << serviceVars, componentVars >>

\* Step 2: retrieveMemories. Without a memory manager it answers []; a
\* failure of the search is caught and answered with [].
RetrieveMemories ==
  /\ pc = "retrieve"
  /\ \E searchRaises \in BOOLEAN :
       raisedIn' = IF hasMemoryManager /\ searchRaises
                   THEN raisedIn \cup {"retrieve"} ELSE raisedIn
  /\ pc' = "plan"
  /\ UNCHANGED << mode, query, context, hasMemoryManager, perceptionResult,
                  currentPlan, execVars, ret, memoriesAtStore, memories, storeVars >>
  /\ UNCHANGED << serviceVars, componentVars >>

\* Step 3: Agent.generatePlan, then the entry of executePlan
\* (executionResults = [], currentStepId = plan.steps[0]?.id).
GeneratePlan ==
  /\ pc = "plan"
  /\ LET g == generatePlan(query, context)
     IN  /\ currentPlan' = g.plan
         /\ raisedIn' = IF g.raised THEN raisedIn \cup {"plan"} ELSE raisedIn
         /\ currentStepId' = FirstStepId(g.plan)
  /\ attempt' = 0
  /\ executionResults' = << >>
  /\ pc' = "exec"
  /\ UNCHANGED << mode, query, context, hasMemoryManager, perceptionResult, ret,
                  lastIteration, dispatches, waits, endedBy, memoriesAtStore,
                  memories, storeVars >>
  /\ UNCHANGED << serviceVars, componentVars >>

\* executePlan is called directly with a plan.
ExecutePlanStart ==
  /\ pc = "idle"
  /\ \E p \in PlanUniverse :
       /\ currentPlan' = p
       /\ currentStepId' = FirstStepId(p)
  /\ mode' = "direct"
  /\ attempt' = 0
  /\ executionResults' = << >>
  /\ pc' = "exec"
  /\ UNCHANGED << query, context, hasMemoryManager, perceptionResult, ret,
                  lastIteration, dispatches, waits, raisedIn, endedBy,
                  memoriesAtStore, memories, storeVars >>
  /\ UNCHANGED << serviceVars, componentVars >>

\* Where control goes when executePlan returns.
AfterExecute == IF mode = "query" THEN "store" ELSE "returned"

\* The loop's guards hold: attempt < maxExecutionSteps, the cursor is set
\* and names a step of the plan.
LoopContinues ==
  /\ attempt < maxExecutionSteps
  /\ currentStepId # NULL
  /\ FindIndex(currentPlan.steps, currentStepId) > 0

\* One iteration of executePlan's loop.
ExecIteration ==
  /\ pc = "exec"
  /\ LoopContinues
  /\ LET step == currentPlan.steps[FindIndex(currentPlan.steps, currentStepId)]
     IN  \E o \in Outcomes(step) :
           LET b == ExecutePlanBody(currentPlan, currentStepId, attempt,
                                    executionResults, o)
               d == b.decision
           IN  /\ currentStepId' = b.cursor
               /\ attempt' = b.attempt
               /\ executionResults' = b.results
               /\ lastIteration' =
                    [stepId |-> currentStepId, action |-> d.action,
                     failed |-> d.action = "error"
                                  \/ (d.action = "execute" /\ ~d.result.success),
                     type |-> step.type, prior |-> executionResults]
               /\ dispatches' = IF d.action \in {"execute", "error"}
                                THEN dispatches + 1 ELSE dispatches
               /\ waits' = IF d.action = "wait" THEN waits + 1 ELSE waits
               /\ IF b.returned
                  THEN /\ ret' = createExecutionResult(currentPlan, b.results, TRUE, FALSE)
                       /\ pc' = AfterExecute
                       /\ endedBy' = "complete"
                  ELSE UNCHANGED << ret, pc, endedBy >>
  /\ UNCHANGED << mode, query, context, hasMemoryManager, perceptionResult,
                  currentPlan, raisedIn, memoriesAtStore, memories, storeVars >>
  /\ UNCHANGED << serviceVars, componentVars >>

\* The loop ends (a break, or attempt reached maxExecutionSteps) and
\* executePlan returns createExecutionResult(plan, executionResults, false).
ExecExit ==
  /\ pc = "exec"
  /\ ~LoopContinues
  /\ ret' = createExecutionResult(currentPlan, executionResults, FALSE, FALSE)
  /\ endedBy' = IF currentStepId = NULL
                   \/ FindIndex(currentPlan.steps, currentStepId) = 0
                THEN "natural" ELSE "budget"
  /\ pc' = AfterExecute
  /\ UNCHANGED << mode, query, context, hasMemoryManager, perceptionResult,
                  currentPlan, currentStepId, attempt, executionResults,
                  lastIteration, dispatches, waits, raisedIn, memoriesAtStore,
                  memories, storeVars >>
  /\ UNCHANGED << serviceVars, componentVars >>

\* Step 5: storeInteraction, then processQuery returns the execution result.
StoreInteraction ==
  /\ pc = "store"
  /\ memoriesAtStore' = Len(memories)
  /\ IF hasMemoryManager
     THEN \E failAt \in 0..Len(StoreAttempts(ret)), failKind \in {"embedFail", "saveFail"} :
            /\ memories' = storeInteraction(memories, ret, failAt, failKind)
            /\ raisedIn' = IF failAt > 0 THEN raisedIn \cup {"store"} ELSE raisedIn
     ELSE UNCHANGED << memories, raisedIn >>
  /\ pc' = "returned"
  /\ UNCHANGED << mode, query, context, hasMemoryManager, perceptionResult,
                  currentPlan, execVars, ret, storeVars >>
  /\ UNCHANGED << serviceVars, componentVars >>

Next ==
  \/ ProcessQueryStart
  \/ ExtractPerception
  \/ RetrieveMemories
  \/ GeneratePlan
  \/ ExecutePlanStart
  \/ ExecIteration
  \/ ExecExit
  \/ StoreInteraction

Spec == Init /\ [][Next]_vars

\* executePlan's loop body and exit always run when enabled: the awaited
\* handler calls return and the timers fire.
FairSpec == Spec /\ WF_vars(Next)

(***************************************************************************)
(* Properties of the plan executor and of processQuery                     *)
(***************************************************************************)
Finished == pc \in {"store", "returned"} /\ endedBy # "none"

\* The step the last iteration was on.
LastStep ==
  currentPlan.steps[FindIndex(currentPlan.steps, lastIteration.stepId)]

\* Every dependency of step s has a successful result among prior.
EveryDependencySucceeded(s, prior) ==
  \A d \in 1..Len(s.dependencies) :
    \E r \in 1..Len(prior) :
      prior[r].stepId = s.dependencies[d] /\ prior[r].success = TRUE

\* The id of the step after position i of the plan, or null after the last.
IdAfter(i) ==
  IF i < Len(currentPlan.steps) THEN currentPlan.steps[i + 1].id ELSE NULL

\* C1: in every iteration of executePlan, the handler of the current step is
\* dispatched only if each of the step's dependencies has a recorded result
\* with success = true; while one lacks it, the decision is 'wait', nothing
\* is recorded and the cursor stays on the step.
C1_DispatchOnlyAfterDependencies ==
  lastIteration.action # "none" =>
    LET met == EveryDependencySucceeded(LastStep, lastIteration.prior)
    IN  /\ lastIteration.action \in {"execute", "error"} => met
        /\ ~met => /\ lastIteration.action = "wait"
                   /\ currentStepId = lastIteration.stepId
                   /\ executionResults = lastIteration.prior

\* A step waits although its dependency has a recorded (failed) result, and
\* an earlier step was dispatched.
C1_Witness ==
  /\ lastIteration.action = "wait"
  /\ dispatches > 0
  /\ \E r \in 1..Len(executionResults) :
       /\ executionResults[r].stepId = LastStep.dependencies[1]
       /\ ~executionResults[r].success

\* C2: executePlan returns success = true when the run ends by natural
\* completion (the cursor is null or names no step) before the budget is
\* spent, and success = false when it ends because the budget was spent.
C2_SuccessOnNaturalCompletion ==
  Finished =>
    /\ (endedBy \in {"natural", "complete"} /\ attempt < maxExecutionSteps)
         => ret.success
    /\ endedBy = "budget" => ~ret.success

\* C3: after an iteration in which the step's handler failed (it answered
\* success = false, or it raised), the cursor is the same step id for a
\* search or navigation step, and the id of the next step in plan order
\* (null after the last) for any other type.
C3_RetryOrSkipOnFailure ==
  lastIteration.failed =>
    currentStepId =
      IF lastIteration.type \in {"search", "navigation"}
      THEN lastIteration.stepId
      ELSE IdAfter(FindIndex(currentPlan.steps, lastIteration.stepId))

\* The case of C4: a plan A -> B (depends on A) -> C (depends on B) with B
\* of a non-retryable type, run to its end, in which A succeeded and B
\* failed.
C4_Case ==
  /\ Finished
  /\ Len(currentPlan.steps) = 3
  /\ currentPlan.steps[1].dependencies = << >>
  /\ currentPlan.steps[2].dependencies = << currentPlan.steps[1].id >>
  /\ currentPlan.steps[3].dependencies = << currentPlan.steps[2].id >>
  /\ currentPlan.steps[2].type \in {"highlight", "analysis"}
  /\ Len(executionResults) >= 2
  /\ executionResults[1].stepId = currentPlan.steps[1].id
  /\ executionResults[1].success
  /\ executionResults[2].stepId = currentPlan.steps[2].id
  /\ ~executionResults[2].success

\* C4 as stated: in that case the recorded results are, in order, a success
\* for A, a failure for B and a result for C.
C4_Original ==
  C4_Case =>
    /\ Len(executionResults) = 3
    /\ executionResults[3].stepId = currentPlan.steps[3].id

\* C4, amended: in that case the cursor moves to C, which is never
\* dispatched: B has no recorded success, so the three remaining iterations
\* are wait decisions on C; the recorded results are exactly the success of
\* A and the failure of B, and executePlan ends on the spent budget with
\* success = false.
C4_SkipThenBlocked ==
  C4_Case =>
    /\ Len(executionResults) = 2
    /\ currentStepId = currentPlan.steps[3].id
    /\ dispatches = 2
    /\ waits = 3
    /\ endedBy = "budget"
    /\ ~ret.success

C4_Witness == C4_Case /\ pc = "returned"

\* C5: with the budget of 5, a run on a plan whose first step has a
\* dependency without a recorded success makes exactly 5 iterations, all of
\* them waits, dispatches no handler, records no result and returns
\* success = false.
C5_BlockedFirstStep ==
  (Finished /\ Len(currentPlan.steps) > 0
            /\ Len(currentPlan.steps[1].dependencies) > 0) =>
    /\ maxExecutionSteps = 5
    /\ attempt = 5
    /\ waits = 5
    /\ dispatches = 0
    /\ executionResults = << >>
    /\ ret.kind = "execution"
    /\ ~ret.success

C5_Witness ==
  /\ Finished
  /\ pc = "returned"
  /\ Len(currentPlan.steps) > 1
  /\ Len(currentPlan.steps[1].dependencies) > 0

\* C6: every run of executePlan ends, and its iterations (handler
\* dispatches plus waits) never exceed maxExecutionSteps = 5, so that a
\* step is re-attempted at most as often as iterations remain. Termination
\* is stated by its variant: every step taken while the loop runs either
\* leaves the loop or uses up one of the at most maxExecutionSteps
\* iterations (each handler call returning).
C6_TerminatesWithinBudget ==
  /\ [](/\ maxExecutionSteps = 5
        /\ attempt <= maxExecutionSteps
        /\ dispatches + waits = attempt)
  /\ [][pc = "exec" => (pc' # "exec" \/ attempt' = attempt + 1)]_vars

\* Termination of executePlan proper: under FairSpec every run of the loop
\* is eventually left.
ExecutePlanReturns == (pc = "exec") ~> (pc # "exec")

\* A retryable step that kept failing used up the whole budget.
C6_Witness ==
  /\ Finished
  /\ dispatches = maxExecutionSteps
  /\ Len(executionResults) = maxExecutionSteps
  /\ \A i \in 1..Len(executionResults) :
       /\ executionResults[i].stepId = currentPlan.steps[1].id
       /\ ~executionResults[i].success

\* C7: processQuery always completes by returning a value, the execution
\* result or {success:false, query, error}, whatever fails in its stages; no
\* exception escapes it.
C7_NoEscape ==
  /\ pc # "threw"
  /\ (mode = "query" /\ pc = "returned") => ret.kind \in {"execution", "error"}

\* processQuery returned although perception, planning and record-back
\* each raised.
C7_Witness ==
  /\ mode = "query"
  /\ pc = "returned"
  /\ {"perceive", "plan", "store"} \subseteq raisedIn

\* The memories storeInteraction added in this processQuery.
AddedByStore == SubSeq(memories, memoriesAtStore + 1, Len(memories))

CountOfType(mems, t) == Len(SelectSeq(mems, LAMBDA m : m.type = t))

\* C8: a processQuery that reaches the record step adds exactly one 'query'
\* memory; when the execution succeeded (it ran to natural completion) with
\* k result items it adds k 'search_result' memories as well, and none
\* when it did not succeed. Stated for the runs in which no addMemory call
\* fails.
C8_RecordQueryAndResults ==
  (mode = "query" /\ pc = "returned" /\ endedBy # "none"
     /\ hasMemoryManager /\ "store" \notin raisedIn) =>
    /\ CountOfType(AddedByStore, "query") = 1
    /\ CountOfType(AddedByStore, "search_result") =
         IF endedBy \in {"natural", "complete"} /\ attempt < maxExecutionSteps
         THEN Len(ret.results) ELSE 0

\* C9: when planning raises, the plan is the fallback plan, a search step
\* followed by a navigation step that depends on it, and processQuery goes
\* on to execute it and returns the execution result.
C9_FallbackPlanOnPlanningFailure ==
  (mode = "query" /\ "plan" \in raisedIn) =>
    /\ Len(currentPlan.steps) = 2
    /\ currentPlan.steps[1].type = "search"
    /\ currentPlan.steps[1].dependencies = << >>
    /\ currentPlan.steps[2].type = "navigation"
    /\ currentPlan.steps[2].dependencies = << currentPlan.steps[1].id >>
    /\ pc \in {"exec", "store", "returned"}
    /\ pc \in {"store", "returned"} =>
         /\ ret.kind = "execution"
         /\ lastIteration.action # "none"

C9_Witness ==
  /\ mode = "query"
  /\ "plan" \in raisedIn
  /\ pc = "returned"
  /\ Len(executionResults) = 2
  /\ executionResults[2].stepId = currentPlan.steps[2].id

\* The step ids of the plan under execution are pairwise different.
UniqueStepIds ==
  \A i, j \in 1..Len(currentPlan.steps) :
    currentPlan.steps[i].id = currentPlan.steps[j].id => i = j

\* C39: during executePlan on a plan with unique step ids, a step of the
\* loop leaves the cursor on the same step, moves it to the step at the next
\* position, or sets it to null; it never moves it to an earlier position.
C39_CursorNeverMovesBack ==
  [][ (pc = "exec" /\ UniqueStepIds)
        => \/ currentStepId' = currentStepId
           \/ currentStepId' = NULL
           \/ FindIndex(currentPlan.steps, currentStepId')
                = FindIndex(currentPlan.steps, currentStepId) + 1 ]_vars

\* The cursor is on the third step of a plan after a failed attempt at that
\* step has left it there.
C39_Witness ==
  /\ pc = "exec"
  /\ Len(currentPlan.steps) >= 3
  /\ currentStepId = currentPlan.steps[3].id
  /\ lastIteration.stepId = currentStepId
  /\ lastIteration.action = "error"

(***************************************************************************)
(* MemoryManager: concurrent addMemory calls on one store                  *)
(***************************************************************************)
MemoryTypes == {"web_page", "query"}

\* The vector the embedding service answers with.
EmbeddingValues == {Vector(3072, 0)}

\* Variant: the entry holds the embedding: null the memory was built with.
EmbeddingEntry_BeforeAssignment(id, embedding) ==
  [id |-> id, embedding |-> NoVector]

\* { id, embedding: memory.embedding }: the entry addMemory pushes to
\* this.embeddings.
EmbeddingEntry(id, embedding) == [id |-> id, embedding |-> embedding]

\* The memory record built by addMemory.
Memory(id, type, sessionId, embedding) ==
  [id |-> id, type |-> type, sessionId |-> sessionId, embedding |-> embedding]

\* Variant: the new element is put in front.
Push_Unshift(list, x) == << x >> \o list

\* this.memories.push(memory), this.embeddings.push({ id, embedding })
Push(list, x) == Append(list, x)

\* Variant: only the newest memory and embedding are written.
SnapshotOf_NewestOnly(mems, embs) ==
  [memories   |-> SubSeq(mems, Len(mems), Len(mems)),
   embeddings |-> SubSeq(embs, Len(embs), Len(embs))]

\* The object saveToStorage hands to chrome.storage.local.set: the whole
\* memories and embeddings collections as they are at the call.
SnapshotOf(mems, embs) == [memories |-> mems, embeddings |-> embs]

\* A store loaded by initialize from a consistent snapshot: empty, or one
\* memory written by an earlier session.
LoadedStores ==
  { EmptyStorage,
    [memories   |-> << Memory(0, "web_page", "s0", Vector(3072, 0)) >>,
     embeddings |-> << [id |-> 0, embedding |-> Vector(3072, 0)] >>,
     sessionId  |-> "s0"] }

InitStore ==
  /\ AgentIdle
  /\ \E st \in LoadedStores :
       /\ storage = st
       /\ memories = st.memories
       /\ embeddings = st.embeddings
  /\ pendingSets = {}
  /\ writer = [w \in Writers |-> IdleWriter]
  /\ nextId = 1
  /\ ServiceIdle
  /\ ComponentsIdle

\* addMemory is called: generateId, then getSessionId issues
\* chrome.storage.local.get('sessionId').
AddMemoryStart(w) ==
  /\ writer[w].pc = "idle"
  /\ \E t \in MemoryTypes :
       writer' = [writer EXCEPT ![w] =
                    [pc |-> "sessionGet", id |-> nextId, type |-> t,
                     sessionId |-> NULL, embedding |-> NoVector,
                     before |-> [memories |-> storage.memories,
                                embeddings |-> storage.embeddings],
                     saveFailed |-> FALSE]]
  /\ nextId' = nextId + 1
  /\ UNCHANGED << agentVars, memories, embeddings, storage, pendingSets >>
  /\ UNCHANGED << serviceVars, componentVars >>

\* getSessionId's get resolves. A stored sessionId is returned; otherwise a
\* new one is generated and chrome.storage.local.set({sessionId}) is issued.
SessionGetResolves(w) ==
  /\ writer[w].pc = "sessionGet"
  /\ IF storage.sessionId # NULL
     THEN /\ writer' = [writer EXCEPT ![w].pc = "embed",
                                      ![w].sessionId = storage.sessionId]
          /\ UNCHANGED << pendingSets, nextId >>
     ELSE /\ writer' = [writer EXCEPT ![w].pc = "sessionSet",
                                      ![w].sessionId = ToString(nextId)]
          /\ pendingSets' = pendingSets \cup
               { [writer |-> w, kind |-> "sessionId", value |-> ToString(nextId)] }
          /\ nextId' = nextId + 1
  /\ UNCHANGED << agentVars, memories, embeddings, storage >>
  /\ UNCHANGED << serviceVars, componentVars >>

\* getEmbedding resolves with a vector: the memory and its embedding are
\* pushed and saveToStorage issues the set of the snapshot taken now.
EmbeddingResolves(w) ==
  /\ writer[w].pc = "embed"
  /\ \E v \in EmbeddingValues :
       LET memory == Memory(writer[w].id, writer[w].type, writer[w].sessionId, v)
           mems   == Push(memories, memory)
           embs   == Push(embeddings, EmbeddingEntry(writer[w].id, v))
       IN  /\ memories' = mems
           /\ embeddings' = embs
           /\ pendingSets' = pendingSets \cup
                { [writer |-> w, kind |-> "snapshot", value |-> SnapshotOf(mems, embs)] }
           /\ writer' = [writer EXCEPT ![w].pc = "saving", ![w].embedding = v]
  /\ UNCHANGED << agentVars, storage, nextId >>
  /\ UNCHANGED << serviceVars, componentVars >>

\* getEmbedding rejects: addMemory rethrows, nothing was pushed.
EmbeddingFails(w) ==
  /\ writer[w].pc = "embed"
  /\ writer' = [writer EXCEPT ![w].pc = "failed"]
  /\ UNCHANGED << agentVars, memories, embeddings, storage, pendingSets, nextId >>
  /\ UNCHANGED << serviceVars, componentVars >>

\* chrome.storage.local.set applied to the durable values: the keys of the
\* object replace the stored values of the same keys.
ApplySet(st, op) ==
  IF op.kind = "sessionId"
  THEN [st EXCEPT !.sessionId = op.value]
  ELSE [st EXCEPT !.memories = op.value.memories,
                  !.embeddings = op.value.embeddings]

\* A set issued by w lands: the storage applies it and acknowledges, and w
\* continues (after the sessionId set: to the embedding call; after the
\* snapshot set: addMemory returns the memory). Sets in flight land in any
\* order.
StorageSetLands(w) ==
  /\ \E op \in pendingSets :
       /\ op.writer = w
       /\ storage' = ApplySet(storage, op)
       /\ pendingSets' = pendingSets \ {op}
       /\ writer' = [writer EXCEPT ![w].pc =
                       IF op.kind = "sessionId" THEN "embed" ELSE "done"]
  /\ UNCHANGED << agentVars, memories, embeddings, nextId >>
  /\ UNCHANGED << serviceVars, componentVars >>

\* A set issued by w is rejected by the storage: nothing is applied and the
\* awaiting addMemory throws.
StorageSetFails(w) ==
  /\ \E op \in pendingSets :
       /\ op.writer = w
       /\ pendingSets' = pendingSets \ {op}
       /\ writer' = [writer EXCEPT ![w].pc = "failed",
                                   ![w].saveFailed = (op.kind = "snapshot")]
  /\ UNCHANGED << agentVars, memories, embeddings, storage, nextId >>
  /\ UNCHANGED << serviceVars, componentVars >>

NextStore ==
  \E w \in Writers :
    \/ AddMemoryStart(w)
    \/ SessionGetResolves(w)
    \/ EmbeddingResolves(w)
    \/ EmbeddingFails(w)
    \/ StorageSetLands(w)
    \/ StorageSetFails(w)

SpecStore == InitStore /\ [][NextStore]_vars

Returned(w) == writer[w].pc = "done"

DurableIds == { storage.memories[i].id : i \in 1..Len(storage.memories) }

PositionOf(id) == CHOOSE i \in 1..Len(memories) : memories[i].id = id

\* C10: two addMemory calls running concurrently on one store can leave, after
\* both have returned successfully, a durable snapshot that lacks one of the
\* added memories, and the loss has one cause: the durable snapshot is always
\* a whole snapshot of the in-memory collection taken at some push, and a
\* returned call's memory is missing from it exactly when the snapshot that
\* landed last is another returned call's, taken before the missing memory was
\* pushed.
C10_LaterLandingOverwrites ==
  /\ \E k \in 0..Len(memories) :
       /\ storage.memories = SubSeq(memories, 1, k)
       /\ storage.embeddings = SubSeq(embeddings, 1, k)
  /\ \A w \in Writers :
       Returned(w) =>
         /\ \E i \in 1..Len(memories) : memories[i].id = writer[w].id
         /\ writer[w].id \notin DurableIds =>
              \E w2 \in Writers \ {w} :
                /\ Returned(w2)
                /\ storage.memories # << >>
                /\ storage.memories[Len(storage.memories)].id = writer[w2].id
                /\ PositionOf(writer[w2].id) < PositionOf(writer[w].id)

\* Every call has returned its memory and the durable snapshot lacks one.
C10_Witness ==
  /\ \A w \in Writers : Returned(w)
  /\ \E w \in Writers : writer[w].id \notin DurableIds

\* C33: all memories added to one store carry the same sessionId.
C33_OneSessionId ==
  \A i, j \in 1..Len(memories) :
    memories[i].sessionId = memories[j].sessionId

\* C38: the memories and embeddings collections have the same length and
\* hold, position by position, the same ids and the same vectors.
C38_CollectionsAligned ==
  /\ Len(memories) = Len(embeddings)
  /\ \A i \in 1..Len(memories) :
       /\ i <= Len(embeddings)
       /\ embeddings[i].id = memories[i].id
       /\ embeddings[i].embedding = memories[i].embedding

\* Two memories have been added to a loaded one by calls that ran
\* concurrently, and the save of one of them was rejected.
C38_Witness ==
  /\ Len(memories) = 3
  /\ \E w \in Writers : writer[w].pc = "failed" /\ writer[w].saveFailed
  /\ \E w \in Writers : writer[w].pc = "done"

(***************************************************************************)
(* MemoryManager: one writer, and execution stopping in mid-call           *)
(***************************************************************************)
InFlight(w) == writer[w].pc \in {"sessionGet", "sessionSet", "embed", "saving"}

\* The caller awaits each addMemory before it makes the next.
NoCallInFlight == \A w \in Writers : ~InFlight(w)

\* Execution stops (the extension's process ends) while a call is in flight:
\* the in-memory collections and the call are gone, a set that has not landed
\* never does, and the next start's initialize loads the durable snapshot.
Crash ==
  /\ \E w \in Writers : InFlight(w)
  /\ writer' = [w \in Writers |->
                  IF InFlight(w) THEN [writer[w] EXCEPT !.pc = "crashed"]
                  ELSE writer[w]]
  /\ pendingSets' = {}
  /\ memories' = storage.memories
  /\ embeddings' = storage.embeddings
  /\ UNCHANGED << agentVars, storage, nextId >>
  /\ UNCHANGED << serviceVars, componentVars >>

\* addMemory called by a caller that awaited its earlier calls.
AwaitedAddMemoryStart(w) == NoCallInFlight /\ AddMemoryStart(w)

NextSingleWriter ==
  \/ \E w \in Writers :
       \/ AwaitedAddMemoryStart(w)
       \/ SessionGetResolves(w)
       \/ EmbeddingResolves(w)
       \/ EmbeddingFails(w)
       \/ StorageSetLands(w)
       \/ StorageSetFails(w)
  \/ Crash

SpecCrash == InitStore /\ [][NextSingleWriter]_vars

(***************************************************************************)
(* The background script's memoryManager                                   *)
(***************************************************************************)
\* The background saveToStorage and getSessionId pass resolve as the callback
\* of chrome.storage.local.set: a rejected set calls it as well (the error is
\* left in chrome.runtime.lastError), so the awaiting call goes on as after
\* a set that landed.
BackgroundSetFails(w) ==
  /\ \E op \in pendingSets :
       /\ op.writer = w
       /\ pendingSets' = pendingSets \ {op}
       /\ writer' = [writer EXCEPT
                       ![w].pc = IF op.kind = "sessionId" THEN "embed" ELSE "done",
                       ![w].saveFailed = (op.kind = "snapshot")]
  /\ UNCHANGED << agentVars, memories, embeddings, storage, nextId >>
  /\ UNCHANGED << serviceVars, componentVars >>

NextBackground ==
  \E w \in Writers :
    \/ AddMemoryStart(w)
    \/ SessionGetResolves(w)
    \/ EmbeddingResolves(w)
    \/ EmbeddingFails(w)
    \/ StorageSetLands(w)
    \/ BackgroundSetFails(w)

SpecBackground == InitStore /\ [][NextBackground]_vars

\* The durable snapshot: the stored memories and embeddings.
Durable == [memories |-> storage.memories, embeddings |-> storage.embeddings]

\* The memory of call w is at one position of the durable snapshot, with the
\* values the call gave it.
DurablyIntact(w) ==
  \E i \in 1..Len(storage.memories) :
    /\ storage.memories[i] =
         Memory(writer[w].id, writer[w].type, writer[w].sessionId, writer[w].embedding)
    /\ i <= Len(storage.embeddings)
    /\ storage.embeddings[i] = [id |-> writer[w].id, embedding |-> writer[w].embedding]

\* C11: with a single writer, at every point between addMemory's append and
\* the landing of its snapshot write the durable snapshot is the one from
\* before the call: the call's memory is missing from it, the memory of every
\* earlier call that returned is in it, intact, and (no earlier write having
\* been rejected) it is the in-memory collection without its last element.
\* Execution stopping at such a point leaves exactly that snapshot, which is
\* what the next start loads.
C11_CrashLosesOnlyLastAddition ==
  /\ [](\A w \in Writers :
          writer[w].pc = "saving" =>
            /\ Durable = writer[w].before
            /\ writer[w].id \notin DurableIds
            /\ \A w2 \in Writers : Returned(w2) => DurablyIntact(w2)
            /\ (\A w2 \in Writers : ~writer[w2].saveFailed) =>
                 /\ storage.memories = SubSeq(memories, 1, Len(memories) - 1)
                 /\ storage.embeddings = SubSeq(embeddings, 1, Len(embeddings) - 1))
  /\ [][\A w \in Writers :
          (writer[w].pc = "saving" /\ writer'[w].pc = "crashed") =>
            /\ storage' = storage
            /\ memories' = writer[w].before.memories
            /\ embeddings' = writer[w].before.embeddings]_vars

\* Execution stopped after the append of a call that followed a returned
\* call: the durable snapshot is the one from before the call and holds the
\* earlier memory.
C11_Witness ==
  \E w, w2 \in Writers :
    /\ writer[w].pc = "crashed"
    /\ writer[w].embedding # NoVector
    /\ Returned(w2)
    /\ Durable = writer[w].before
    /\ DurablyIntact(w2)

\* C12: when the snapshot write of an addMemory call fails, the call fails to
\* its caller; it never returns the memory.
C12_SaveFailurePropagates ==
  \A w \in Writers : writer[w].saveFailed => writer[w].pc = "failed"

(***************************************************************************)
(* EmbeddingService.getEmbedding, one call at a time                       *)
(***************************************************************************)
\* The length of the vector a provider's embed answers with: 3072 is what
\* MemoryManager expects of Gemini, 384 is createTextEmbedding's dimension
\* and that of all-MiniLM-L6-v2, 1536 that of text-embedding-3-small.
ProviderDimension(p) ==
  CASE p = "gemini"      -> 3072
    [] p = "local"       -> 384
    [] p = "huggingface" -> 384
    [] p = "openai"      -> 1536

\* The sets of providers whose embed fails during one call.
FailSets ==
  { {}, {"gemini"}, {"gemini", "local", "huggingface", "openai"} }

\* getEmbedding with currentProvider = current, when the embed of exactly
\* the providers in fails throws: the provider that answered (if any), the
\* currentProvider afterwards and the providers attempted, in order.
getEmbedding(current, fails) ==
  IF current \notin fails
  THEN [failed |-> FALSE, provider |-> current, current |-> current,
        attempts |-> << current >>]
  ELSE LET others == SelectSeq(Providers, LAMBDA p : p # current)
           firstOk == IF \E i \in 1..Len(others) : others[i] \notin fails
                      THEN CHOOSE i \in 1..Len(others) :
                             /\ others[i] \notin fails
                             /\ \A j \in 1..(i - 1) : others[j] \in fails
                      ELSE 0
       IN  IF firstOk = 0
           THEN [failed |-> TRUE, provider |-> NULL, current |-> current,
                 attempts |-> << current >> \o others]
           ELSE [failed |-> FALSE, provider |-> others[firstOk],
                 current |-> others[firstOk],
                 attempts |-> << current >> \o SubSeq(others, 1, firstOk)]

(***************************************************************************)
(* MemoryManager.search                                                    *)
(***************************************************************************)
\* The cosine of the angle between two directions, in hundredths.
Cos100(a, b) ==
  LET d == IF a >= b THEN a - b ELSE b - a
  IN  CASE d = 0   -> 100
        [] d = 30  -> 87
        [] d = 60  -> 50
        [] d = 90  -> 0
        [] d = 120 -> -50
        [] d = 180 -> -100

\* MemoryManager.cosineSimilarity, in hundredths.
cosineSimilarity(vecA, vecB) ==
  IF vecA.length # vecB.length \/ vecA.length # 3072 THEN 0
  ELSE IF vecA.angle = -1 \/ vecB.angle = -1 THEN 0
  ELSE Cos100(vecA.angle, vecB.angle)

\* this.embeddings.find(e => e.id === memory.id)?.embedding, null if none.
FindEmbedding(embs, id) ==
  IF \E i \in 1..Len(embs) : embs[i].id = id
  THEN embs[CHOOSE i \in 1..Len(embs) :
              /\ embs[i].id = id
              /\ \A j \in 1..(i - 1) : embs[j].id # id].embedding
  ELSE NoVector

\* Variant: every similarity passes.
MeetsMinScore_Always(similarity, minScore) == TRUE

\* similarity >= minScore
MeetsMinScore(similarity, minScore) == similarity >= minScore

\* if (type && memory.type !== type) continue
TypeSkipped(type, memory) == type # NULL /\ memory.type # type

\* { ...memory, score: similarity }
Scored(memory, similarity) ==
  [id |-> memory.id, type |-> memory.type, sessionId |-> memory.sessionId,
   embedding |-> memory.embedding, score |-> similarity]

\* The loop of search over this.memories: the results pushed, in order.
RECURSIVE ScanMemories(_, _, _, _, _)
ScanMemories(mems, embs, queryEmbedding, type, minScore) ==
  IF mems = << >> THEN << >>
  ELSE LET memory     == mems[Len(mems)]
           earlier    == ScanMemories(SubSeq(mems, 1, Len(mems) - 1), embs,
                                      queryEmbedding, type, minScore)
           stored     == FindEmbedding(embs, memory.id)
           similarity == cosineSimilarity(queryEmbedding, stored)
       IN  IF TypeSkipped(type, memory) THEN earlier
           ELSE IF stored = NoVector \/ stored.length # 3072 THEN earlier
           ELSE IF MeetsMinScore(similarity, minScore)
                THEN Append(earlier, Scored(memory, similarity))
                ELSE earlier

\* Variant: an item is put before the items of equal score.
InsertByScore_BeforeEqual(x, sorted) ==
  LET k == Cardinality({i \in 1..Len(sorted) : sorted[i].score > x.score})
  IN  SubSeq(sorted, 1, k) \o << x >> \o SubSeq(sorted, k + 1, Len(sorted))

\* One step of the stable sort by (a, b) => b.score - a.score: x, which came
\* after the items of sorted, goes behind every item whose score is not lower.
InsertByScore(x, sorted) ==
  LET k == Cardinality({i \in 1..Len(sorted) : sorted[i].score >= x.score})
  IN  SubSeq(sorted, 1, k) \o << x >> \o SubSeq(sorted, k + 1, Len(sorted))

\* results.sort((a, b) => b.score - a.score)
RECURSIVE SortByScore(_)
SortByScore(results) ==
  IF results = << >> THEN << >>
  ELSE InsertByScore(results[Len(results)],
                     SortByScore(SubSeq(results, 1, Len(results) - 1)))

\* Variant: nothing is cut off.
Slice_All(results, limit) == results

\* results.slice(0, limit), limit >= 0
Slice(results, limit) ==
  SubSeq(results, 1, IF limit < Len(results) THEN limit ELSE Len(results))

\* MemoryManager.search once getEmbedding has answered; a failed getEmbedding
\* is caught and answered with [].
search(mems, embs, embeddingFailed, queryEmbedding, limit, type, minScore) ==
  IF embeddingFailed THEN << >>
  ELSE Slice(SortByScore(ScanMemories(mems, embs, queryEmbedding, type, minScore)),
             limit)

\* Directions of stored vectors, and of query vectors (-1: the zero vector).
StoredAngles == {0, 60}
QueryAngles == {0, 180, -1}

\* The options of a search call: limit, type (null: any) and minScore in
\* hundredths (12: the default 0.12).
SearchOptions ==
  [limit : {1, 2, 10}, type : {NULL, "web_page"}, minScore : {-60, 0, 12, 60}]

\* The search calls of the runs that interleave it with addMemory.
DefaultOptions == { [limit |-> 10, type |-> NULL, minScore |-> 12] }

\* search(query, options): the query's embedding comes from getEmbedding,
\* which may switch the current provider.
SearchCall(options) ==
  /\ \E o \in options, fails \in FailSets, angle \in QueryAngles :
       LET e == getEmbedding(currentProvider, fails)
           q == IF e.failed THEN NoVector
                ELSE Vector(ProviderDimension(e.provider), angle)
       IN  /\ currentProvider' = e.current
           /\ searchInput' =
                [called |-> TRUE, queryEmbedding |-> q, embeddingFailed |-> e.failed,
                 limit |-> o.limit, type |-> o.type, minScore |-> o.minScore]
           /\ searchReturn' =
                search(memories, embeddings, e.failed, q, o.limit, o.type, o.minScore)
  /\ UNCHANGED << componentVars, agentVars, memories, storeVars, embedCall, statsReturn >>

\* The stored memories search is called on: any sequence of up to
\* MaxMemories memories of either type, with vectors from either of the
\* providers addMemory gets its embeddings from.
StoredKinds ==
  [type : MemoryTypes, length : {3072, 384}, angle : StoredAngles]

StoreOf(kinds) ==
  [memories   |-> [i \in 1..Len(kinds) |->
                     Memory(i, kinds[i].type, "s0",
                            Vector(kinds[i].length, kinds[i].angle))],
   embeddings |-> [i \in 1..Len(kinds) |->
                     [id |-> i, embedding |-> Vector(kinds[i].length, kinds[i].angle)]],
   sessionId  |-> "s0"]

StoreUniverse == { StoreOf(k) : k \in SeqsUpTo(StoredKinds, MaxMemories) }

InitSearch ==
  /\ AgentIdle
  /\ \E st \in StoreUniverse :
       /\ storage = st
       /\ memories = st.memories
       /\ embeddings = st.embeddings
       /\ nextId = Len(st.memories) + 1
  /\ pendingSets = {}
  /\ writer = [w \in Writers |-> IdleWriter]
  /\ ServiceIdle
  /\ ComponentsIdle

\* One search call on the store.
SearchOnce == ~searchInput.called /\ SearchCall(SearchOptions)

SpecSearch == InitSearch /\ [][SearchOnce]_vars

(***************************************************************************)
(* Properties of search                                                    *)
(***************************************************************************)
ReturnedIds == { searchReturn[i].id : i \in 1..Len(searchReturn) }

\* The similarity of the i-th stored memory to the query of the last search.
TrueScore(i) ==
  cosineSimilarity(searchInput.queryEmbedding, embeddings[i].embedding)

\* The i-th stored memory qualifies for the last search: it is of the
\* requested type (if one was given), its vector has the dimension search
\* works in, and its similarity reaches minScore.
Qualifies(i) ==
  /\ searchInput.type # NULL => memories[i].type = searchInput.type
  /\ embeddings[i].embedding.length = 3072
  /\ TrueScore(i) >= searchInput.minScore

\* C14: for every stored collection, query and minScore, every item search
\* returns has score >= minScore.
C14_ScoresMeetMinScore ==
  searchInput.called =>
    \A i \in 1..Len(searchReturn) : searchReturn[i].score >= searchInput.minScore

\* A search with minScore 0.6 returned an item and left out a memory of the
\* right type and dimension whose similarity is lower.
C14_Witness ==
  /\ searchInput.called
  /\ searchInput.minScore = 60
  /\ Len(searchReturn) >= 1
  /\ \E i \in 1..Len(memories) :
       /\ searchInput.type # NULL => memories[i].type = searchInput.type
       /\ embeddings[i].embedding.length = 3072
       /\ TrueScore(i) < 60

\* C15: the list search returns is non-increasing by score, and two returned
\* items of equal score are in the order in which they were added.
C15_SortedAndStable ==
  searchInput.called =>
    \A i, j \in 1..Len(searchReturn) :
      i < j =>
        /\ searchReturn[i].score >= searchReturn[j].score
        /\ searchReturn[i].score = searchReturn[j].score =>
             PositionOf(searchReturn[i].id) < PositionOf(searchReturn[j].id)

\* The returned list has two items of equal score, and an item that was
\* added later than one it precedes.
C15_Witness ==
  /\ searchInput.called
  /\ \E i, j \in 1..Len(searchReturn) :
       i < j /\ searchReturn[i].score = searchReturn[j].score
  /\ \E i, j \in 1..Len(searchReturn) :
       i < j /\ PositionOf(searchReturn[i].id) > PositionOf(searchReturn[j].id)

\* C16: search returns at most limit items, each of the requested type when
\* one is given; they are qualifying memories with their similarity as score,
\* as many as qualify up to limit, and every qualifying memory left out
\* ranks behind every returned item (lower score, or equal score and added
\* later): the list is the first limit items of the sorted qualifying ones.
C16_LimitTypeAndPrefix ==
  (searchInput.called /\ ~searchInput.embeddingFailed) =>
    LET qualifying == { i \in 1..Len(memories) : Qualifies(i) }
    IN  /\ Len(searchReturn) <= searchInput.limit
        /\ searchInput.type # NULL =>
             \A r \in 1..Len(searchReturn) : searchReturn[r].type = searchInput.type
        /\ Cardinality(ReturnedIds) = Len(searchReturn)
        /\ \A r \in 1..Len(searchReturn) :
             \E i \in qualifying :
               /\ memories[i].id = searchReturn[r].id
               /\ searchReturn[r].score = TrueScore(i)
        /\ Len(searchReturn) =
             IF searchInput.limit < Cardinality(qualifying)
             THEN searchInput.limit ELSE Cardinality(qualifying)
        /\ \A i \in qualifying :
             memories[i].id \notin ReturnedIds =>
               \A r \in 1..Len(searchReturn) :
                 \/ searchReturn[r].score > TrueScore(i)
                 \/ /\ searchReturn[r].score = TrueScore(i)
                    /\ PositionOf(searchReturn[r].id) < i

\* A search for one type cut the list off at limit, and a memory of another
\* type was in the store.
C16_Witness ==
  /\ searchInput.called
  /\ searchInput.type = "web_page"
  /\ Len(searchReturn) = searchInput.limit
  /\ Cardinality({ i \in 1..Len(memories) : Qualifies(i) }) > searchInput.limit
  /\ \E i \in 1..Len(memories) : memories[i].type # "web_page"

\* C17: a stored memory whose embedding's dimension differs from that of the
\* query embedding is in no result of search, whatever minScore is.
C17_MismatchedNeverReturned ==
  (searchInput.called /\ ~searchInput.embeddingFailed) =>
    \A r \in 1..Len(searchReturn) :
      searchReturn[r].embedding.length = searchInput.queryEmbedding.length

(***************************************************************************)
(* MemoryManager: addMemory, search and getStats called one after another  *)
(***************************************************************************)
\* MemoryManager.getStats
getStats(mems) ==
  LET types == { mems[i].type : i \in 1..Len(mems) }
  IN  [called |-> TRUE,
       totalMemories |-> Len(mems),
       typeStats |-> [t \in types |->
                        Cardinality({ i \in 1..Len(mems) : mems[i].type = t })]]

\* A whole addMemory call: generateId, getSessionId (which stores a new
\* sessionId when none is stored), getEmbedding (which may switch the current
\* provider, or fail: addMemory rethrows), the two pushes and saveToStorage,
\* whose set lands.
AddMemoryCall ==
  /\ nextId < 2 * MaxAdds
  /\ \E t \in MemoryTypes, fails \in FailSets, angle \in StoredAngles :
       LET e         == getEmbedding(currentProvider, fails)
           sessionId == IF storage.sessionId # NULL THEN storage.sessionId
                        ELSE ToString(nextId + 1)
           v         == Vector(ProviderDimension(e.provider), angle)
           mems      == Push(memories, Memory(nextId, t, sessionId, v))
           embs      == Push(embeddings, [id |-> nextId, embedding |-> v])
           withId    == [storage EXCEPT !.sessionId = sessionId]
       IN  /\ nextId' = nextId + 2
           /\ currentProvider' = e.current
           /\ IF e.failed
              THEN /\ storage' = withId
                   /\ UNCHANGED << memories, embeddings >>
              ELSE /\ memories' = mems
                   /\ embeddings' = embs
                   /\ storage' = ApplySet(withId, [kind |-> "snapshot",
                                                   value |-> SnapshotOf(mems, embs)])
  /\ UNCHANGED << agentVars, pendingSets, writer, embedCall, searchInput,
                  searchReturn, statsReturn, componentVars >>

\* A getStats call.
GetStatsCall ==
  /\ statsReturn' = getStats(memories)
  /\ UNCHANGED << componentVars, agentVars, memories, storeVars, currentProvider, embedCall,
                  searchInput, searchReturn >>

InitMemory ==
  /\ AgentIdle
  /\ memories = << >>
  /\ StoreIdle
  /\ ServiceIdle
  /\ ComponentsIdle

NextMemory ==
  \/ AddMemoryCall
  \/ SearchCall(DefaultOptions)
  \/ GetStatsCall

SpecMemory == InitMemory /\ [][NextMemory]_vars

\* C13: search and getStats leave the in-memory collection unchanged and
\* addMemory only appends: in every step, each memory of the collection stays
\* at its position with the same values, and so does its embedding.
C13_OnlyAppends ==
  [][/\ Len(memories') >= Len(memories)
     /\ Len(embeddings') >= Len(embeddings)
     /\ \A i \in 1..Len(memories) : memories'[i] = memories[i]
     /\ \A i \in 1..Len(embeddings) : embeddings'[i] = embeddings[i]
     /\ (searchInput' # searchInput \/ statsReturn' # statsReturn) =>
          (memories' = memories /\ embeddings' = embeddings)]_vars

\* A memory was added after a getStats call that already counted another,
\* and a search has returned one.
C13_Witness ==
  /\ statsReturn.called
  /\ statsReturn.totalMemories >= 1
  /\ Len(memories) > statsReturn.totalMemories
  /\ searchInput.called
  /\ searchReturn # << >>

\* C18: after any sequence of addMemory calls, those during which the
\* embedding service falls back to another provider included, all the
\* embeddings in the store have the same dimension.
C18_OneDimension ==
  \A i, j \in 1..Len(embeddings) :
    embeddings[i].embedding.length = embeddings[j].embedding.length

(***************************************************************************)
(* EmbeddingService.getEmbedding: concurrent calls                         *)
(***************************************************************************)
\* Variant: the provider that answered is not made the current one.
ProviderAfterFallback_Unchanged(current, provider) == current

\* this.currentProvider = provider
ProviderAfterFallback(current, provider) == provider

\* getEmbedding is called: this.currentProvider.embed(text) is awaited.
GetEmbeddingStart(c) ==
  /\ embedCall[c].pc = "idle"
  /\ embedCall' = [embedCall EXCEPT ![c] =
                     [pc |-> "current", trying |-> currentProvider,
                      attempts |-> << >>, next |-> 1, result |-> NULL]]
  /\ UNCHANGED << componentVars, agentVars, memories, storeVars, currentProvider, searchInput,
                  searchReturn, statsReturn >>

\* The awaited embed answers with a vector, which getEmbedding returns; in
\* the fallback loop the provider becomes the current one first.
EmbedAnswers(c) ==
  /\ embedCall[c].pc \in {"current", "fallback"}
  /\ embedCall' = [embedCall EXCEPT
                     ![c].pc = "done",
                     ![c].attempts =
                        Append(@, [provider |-> embedCall[c].trying, ok |-> TRUE]),
                     ![c].result = embedCall[c].trying,
                     ![c].trying = NULL]
  /\ currentProvider' =
       IF embedCall[c].pc = "fallback"
       THEN ProviderAfterFallback(currentProvider, embedCall[c].trying)
       ELSE currentProvider
  /\ UNCHANGED << componentVars, agentVars, memories, storeVars, searchInput, searchReturn,
                  statsReturn >>

\* The awaited embed throws: the loop over this.providers starts (after the
\* current provider's failure) or goes on (after a fallback's), skipping the
\* provider that is the current one now, and awaits the next embed; when the
\* loop is over getEmbedding throws 'All embedding providers failed'.
EmbedThrows(c) ==
  /\ embedCall[c].pc \in {"current", "fallback"}
  /\ LET from   == IF embedCall[c].pc = "current" THEN 1 ELSE embedCall[c].next
         left   == { i \in from..Len(Providers) : Providers[i] # currentProvider }
         k      == CHOOSE i \in left : \A j \in left : i <= j
         failed == Append(embedCall[c].attempts,
                          [provider |-> embedCall[c].trying, ok |-> FALSE])
     IN  embedCall' = [embedCall EXCEPT ![c] =
           IF left = {}
           THEN [pc |-> "failed", trying |-> NULL, attempts |-> failed,
                 next |-> Len(Providers) + 1, result |-> NULL]
           ELSE [pc |-> "fallback", trying |-> Providers[k], attempts |-> failed,
                 next |-> k + 1, result |-> NULL]]
  /\ UNCHANGED << componentVars, agentVars, memories, storeVars, currentProvider, searchInput,
                  searchReturn, statsReturn >>

InitEmbed ==
  /\ AgentIdle
  /\ memories = << >>
  /\ StoreIdle
  /\ ServiceIdle
  /\ ComponentsIdle

NextEmbed ==
  \E c \in Callers :
    \/ GetEmbeddingStart(c)
    \/ EmbedAnswers(c)
    \/ EmbedThrows(c)

SpecEmbed == InitEmbed /\ [][NextEmbed]_vars

C20_FailsOnlyWhenAllFailed ==
  \A c \in Callers :
    LET a == embedCall[c].attempts
    IN  /\ \A i, j \in 1..Len(a) : i # j => a[i].provider # a[j].provider
        /\ \A i, j \in 2..Len(a) :
             i < j => \E m, n \in 1..Len(Providers) :
                        m < n /\ Providers[m] = a[i].provider
                              /\ Providers[n] = a[j].provider
        /\ embedCall[c].pc = "failed" =>
             \A m \in 1..Len(Providers) :
               \E i \in 1..Len(a) : a[i].provider = Providers[m] /\ ~a[i].ok

(***************************************************************************)
(* The planner on its own: createPlan, createBasicPlan and                 *)
(* createFallbackPlan called in any order on one engine                    *)
(***************************************************************************)
PlanQueries == {"q1", "q2"}

\* The analyses createPlan is given, by the fields it reads.
Analyses ==
  [query       : PlanQueries,
   intent      : {"information", "learning", "search"},
   entities    : {0, 3},
   complexity  : {"medium", "high"},
   contentType : {NULL},
   urgency     : {"normal"}]

\* The analysis of a call that is given only a query.
QueryOnly(q) ==
  [query |-> q, intent |-> "information", entities |-> 0,
   complexity |-> "medium", contentType |-> NULL, urgency |-> "normal"]

\* generatePlanId: a fresh id for every call.
generatePlanId == Len(planLog) + 1

\* A createPlan call.
CreatePlanCall ==
  /\ Len(planLog) < MaxPlanCalls
  /\ \E analysis \in Analyses :
       LET planType == determinePlanType(analysis)
           plan     == PlanningEngine_createPlan(templates, analysis,
                                                 generatePlanId)
           stored   ==
             IF planType \in DOMAIN templates
             THEN [templates EXCEPT
                     ![planType] =
                        StoredAfterCustomize(
                          templates[planType],
                          PlanningEngine_customizeTemplate(templates[planType],
                                                           analysis))]
             ELSE templates
       IN  /\ templates' = TemplatesAfterCreatePlan(stored, planType)
           /\ planLog' = Append(planLog, [call |-> "createPlan",
                                          analysis |-> analysis,
                                          plan |-> plan])
  /\ UNCHANGED exceptPlanner

\* A createBasicPlan call.
CreateBasicPlanCall ==
  /\ Len(planLog) < MaxPlanCalls
  /\ \E q \in PlanQueries :
       planLog' = Append(planLog, [call |-> "createBasicPlan",
                                   analysis |-> QueryOnly(q),
                                   plan |-> createBasicPlan(QueryOnly(q),
                                                            generatePlanId)])
  /\ UNCHANGED << exceptPlanner, templates >>

\* A createFallbackPlan call.
CreateFallbackPlanCall ==
  /\ Len(planLog) < MaxPlanCalls
  /\ \E q \in PlanQueries :
       planLog' = Append(planLog, [call |-> "createFallbackPlan",
                                   analysis |-> QueryOnly(q),
                                   plan |-> DecisionModule_createFallbackPlan(
                                              q, generatePlanId)])
  /\ UNCHANGED << exceptPlanner, templates >>

InitPlan ==
  /\ AgentIdle
  /\ memories = << >>
  /\ StoreIdle
  /\ ServiceIdle
  /\ ComponentsIdle

NextPlan ==
  \/ CreatePlanCall
  \/ CreateBasicPlanCall
  \/ CreateFallbackPlanCall

SpecPlan == InitPlan /\ [][NextPlan]_vars

\* The position of the first step of the plan that carries the id, 0 if none.
PlanPosition(plan, id) ==
  IF \E i \in 1..Len(plan.steps) : plan.steps[i].id = id
  THEN CHOOSE i \in 1..Len(plan.steps) :
         /\ plan.steps[i].id = id
         /\ \A j \in 1..(i - 1) : plan.steps[j].id # id
  ELSE 0

\* C21: in every plan that createPlan, createBasicPlan or createFallbackPlan
\* returned, each id in a step's dependencies is the id of a step at a
\* strictly earlier position of the same plan.
C21_DependenciesPointBack ==
  \A k \in 1..Len(planLog) :
    LET plan == planLog[k].plan
    IN  \A i \in 1..Len(plan.steps) :
          \A d \in 1..Len(plan.steps[i].dependencies) :
            \E j \in 1..(i - 1) : plan.steps[j].id = plan.steps[i].dependencies[d]

\* C21 happens: each of the three operations has returned a plan, and one of
\* the plans has a step with a dependency.
C21_Witness ==
  /\ { planLog[k].call : k \in 1..Len(planLog) }
       = {"createPlan", "createBasicPlan", "createFallbackPlan"}
  /\ \E k \in 1..Len(planLog) :
       /\ planLog[k].call = "createPlan"
       /\ planLog[k].plan.type = "deep_analysis"
       /\ Len(planLog[k].plan.steps[4].dependencies) = 1

\* C22: createPlan leaves the stored templates as the constructor made them,
\* and every plan it returned has exactly its template's step ids, order,
\* types and dependency lists, after any number of createPlan calls.
C22_TemplatesPreserved ==
  /\ templates = initializeTemplates
  /\ \A k \in 1..Len(planLog) :
       planLog[k].call = "createPlan" =>
         LET plan     == planLog[k].plan
             template == initializeTemplates[determinePlanType(planLog[k].analysis)]
         IN  /\ plan.type = template.type
             /\ Len(plan.steps) = Len(template.steps)
             /\ \A i \in 1..Len(template.steps) :
                  /\ plan.steps[i].id = template.steps[i].id
                  /\ plan.steps[i].type = template.steps[i].type
                  /\ plan.steps[i].dependencies = template.steps[i].dependencies

\* C22 happens: createPlan has used the same template three times, with
\* different analyses, and the parameters it set are in the returned plans.
C22_Witness ==
  /\ Len(planLog) = 3
  /\ \A k \in 1..3 :
       /\ planLog[k].call = "createPlan"
       /\ planLog[k].plan.type = "deep_analysis"
       /\ planLog[k].plan.steps[1].parameters # NoParameters
  /\ planLog[1].analysis # planLog[2].analysis
  /\ planLog[2].analysis # planLog[3].analysis

ContentLengths == {0, minContentLength - 1, minContentLength}

\* A page: whether its address matches a skip pattern, the length of
\* document.body.innerText, of the content extractPageContent returns and of
\* the content extractAdvancedPageContent returns.
Pages ==
  [skip : BOOLEAN, body : ContentLengths, content : ContentLengths,
   advanced : ContentLengths]

\* Content script: shouldProcessPage.
shouldProcessPage(p) == ~p.skip /\ ~(p.body < minContentLength)

\* processPage: pageData.content.length < 100.
ContentTooShort(length) == length < minContentLength

PageRuns ==
  Cardinality({ k \in 1..Len(pageLog) :
                  pageLog[k].handler \in {"processPage", "runProcessor"} })

\* Variant: processPage has no guard against a run in progress.
processPageGuard_Never(processing) == FALSE

\* processPage: if (isProcessing) return.
processPageGuard(processing) == processing

\* Content script: processPage, called by the timer of
\* initializePageProcessor or of observePageChanges, up to its await of
\* sendMessage. It returns at once while another run is in progress (the
\* guard); a page that is not to be processed or whose content is too short
\* sends nothing, and the finally block resets isProcessing.
ProcessPage ==
  /\ page # NoPage
  /\ PageRuns < MaxPageRuns
  /\ IF processPageGuard(isProcessing)
     THEN /\ pageLog' = Append(pageLog, [handler |-> "processPage",
                                         length |-> page.content,
                                         outcome |-> "returned"])
          /\ UNCHANGED << embedPageMessages, isProcessing >>
     ELSE IF shouldProcessPage(page) /\ ~ContentTooShort(page.content)
     THEN /\ embedPageMessages' =
               Append(embedPageMessages,
                      [source |-> "processPage", length |-> page.content])
          /\ isProcessing' = TRUE
          /\ pageLog' = Append(pageLog, [handler |-> "processPage",
                                         length |-> page.content,
                                         outcome |-> "sent"])
     ELSE /\ pageLog' = Append(pageLog, [handler |-> "processPage",
                                         length |-> page.content,
                                         outcome |-> "skipped"])
          /\ isProcessing' = FALSE
          /\ UNCHANGED embedPageMessages
  /\ UNCHANGED << page, windowMessages, memories, storeVars, exceptPage >>

\* processPage's sendMessage rejects (the background cannot be reached):
\* the message is not delivered, the catch block logs the error and the
\* finally block resets isProcessing.
SendMessageRejects ==
  /\ \E k \in 1..Len(embedPageMessages) :
       /\ embedPageMessages[k].source = "processPage"
       /\ embedPageMessages' =
            SubSeq(embedPageMessages, 1, k - 1)
              \o SubSeq(embedPageMessages, k + 1, Len(embedPageMessages))
       /\ pageLog' = Append(pageLog, [handler |-> "processPage",
                                      length  |-> embedPageMessages[k].length,
                                      outcome |-> "failed"])
  /\ isProcessing' = FALSE
  /\ UNCHANGED << page, windowMessages, memories, storeVars, exceptPage >>

\* page-processor.js: runProcessor posts the page data it extracted.
RunProcessor ==
  /\ page # NoPage
  /\ PageRuns < MaxPageRuns
  /\ windowMessages' = Append(windowMessages, page.advanced)
  /\ pageLog' = Append(pageLog, [handler |-> "runProcessor",
                                 length |-> page.advanced,
                                 outcome |-> "posted"])
  /\ UNCHANGED << page, isProcessing, embedPageMessages, memories, storeVars,
                  exceptPage >>

\* Content script: handlePageProcessorMessage forwards the posted page data
\* to the background as an EMBED_PAGE message.
HandlePageProcessorMessage ==
  /\ windowMessages # << >>
  /\ windowMessages' = Tail(windowMessages)
  /\ embedPageMessages' =
       Append(embedPageMessages,
              [source |-> "pageProcessor", length |-> Head(windowMessages)])
  /\ UNCHANGED << page, isProcessing, pageLog, memories, storeVars, exceptPage >>

\* Background: handleEmbedPage on the next EMBED_PAGE message, with an
\* initialized memory manager: addMemory stores the page as a web_page
\* memory, or its embedding fails and the handler answers {success: false}.
\* The answer ends processPage's await, whose finally resets isProcessing.
HandleEmbedPage ==
  /\ embedPageMessages # << >>
  /\ \E embedded \in BOOLEAN :
       LET message   == Head(embedPageMessages)
           sessionId == IF storage.sessionId # NULL THEN storage.sessionId
                        ELSE ToString(nextId + 1)
           v         == Vector(3072, 0)
           mems      == Push(memories, Memory(nextId, "web_page", sessionId, v))
           embs      == Push(embeddings, [id |-> nextId, embedding |-> v])
           withId    == [storage EXCEPT !.sessionId = sessionId]
       IN  /\ embedPageMessages' = Tail(embedPageMessages)
           /\ isProcessing' = IF message.source = "processPage" THEN FALSE
                              ELSE isProcessing
           /\ nextId' = nextId + 2
           /\ pageLog' = Append(pageLog,
                                [handler |-> "handleEmbedPage",
                                 length  |-> message.length,
                                 outcome |-> IF embedded THEN "stored"
                                             ELSE "failed"])
           /\ IF embedded
              THEN /\ memories' = mems
                   /\ embeddings' = embs
                   /\ storage' = ApplySet(withId, [kind |-> "snapshot",
                                                   value |-> SnapshotOf(mems, embs)])
              ELSE /\ storage' = withId
                   /\ UNCHANGED << memories, embeddings >>
  /\ UNCHANGED << page, windowMessages, pendingSets, writer, exceptPage >>

\* The content script is loaded into a page.
PageLoads ==
  /\ page = NoPage
  /\ page' \in Pages \ {NoPage}
  /\ UNCHANGED << isProcessing, windowMessages, embedPageMessages, pageLog,
                  memories, storeVars, exceptPage >>

InitPage ==
  /\ AgentIdle
  /\ memories = << >>
  /\ StoreIdle
  /\ ServiceIdle
  /\ ComponentsIdle

NextPage ==
  \/ PageLoads
  \/ ProcessPage
  \/ SendMessageRejects
  \/ RunProcessor
  \/ HandlePageProcessorMessage
  \/ HandleEmbedPage

SpecPage == InitPage /\ [][NextPage]_vars

\* C24: extracted content shorter than the minimum length never leads to an
\* EMBED_PAGE message or to a stored memory, by processPage or by the page
\* processor's data forwarded by the content script, and the background
\* never answers it with an error.
C24_ShortContentNeverEmbedded ==
  /\ \A k \in 1..Len(embedPageMessages) :
       ~(embedPageMessages[k].length < minContentLength)
  /\ \A k \in 1..Len(pageLog) :
       pageLog[k].handler = "handleEmbedPage"
         => ~(pageLog[k].length < minContentLength)

\* The processPage runs in progress: those awaiting the answer to their
\* EMBED_PAGE message.
RunsInProgress ==
  { k \in 1..Len(embedPageMessages) :
      embedPageMessages[k].source = "processPage" }

\* C40: at most one processPage run is in progress at any time, a call made
\* while a run is in progress sends nothing, and isProcessing is true
\* exactly while a run is in progress.
C40_OneRunAtATime ==
  /\ Cardinality(RunsInProgress) <= 1
  /\ isProcessing <=> RunsInProgress # {}
  /\ \A k \in 1..Len(pageLog) :
       (pageLog[k].handler = "processPage" /\ pageLog[k].outcome = "sent")
         => \A j \in 1..(k - 1) :
              (pageLog[j].handler = "processPage" /\ pageLog[j].outcome = "sent")
                => \E i \in (j + 1)..(k - 1) :
                     \/ pageLog[i].handler = "handleEmbedPage"
                     \/ pageLog[i].outcome = "failed"

\* A call made while a run was in progress has returned at the guard, the
\* run has failed since, and no run is in progress.
C40_Witness ==
  /\ ~isProcessing
  /\ \E j, k \in 1..Len(pageLog) :
       /\ j < k
       /\ pageLog[j].outcome = "returned"
       /\ pageLog[k].outcome = "failed"

(***************************************************************************)
(* Background embedding service: getGemini3072DEmbedding,                  *)
(* getChunked3072DEmbedding and average3072DEmbeddings                     *)
(***************************************************************************)
Sentence(lead, chars) == [lead |-> lead, chars |-> chars]

RECURSIVE SumOver(_, _)
\* The sum of f[i] over the indices of the sequence f from position n down.
SumOver(f, n) == IF n = 0 THEN 0 ELSE f[n] + SumOver(f, n - 1)

\* The length of currentChunk: every sentence followed by '. '.
ChunkLength(sentences) ==
  SumOver([i \in 1..Len(sentences) |->
             sentences[i].lead + sentences[i].chars + 2], Len(sentences))

\* currentChunk.trim().length: without the leading blanks of the first
\* sentence and the blank at the end.
TrimmedLength(sentences) ==
  IF sentences = << >> THEN 0
  ELSE ChunkLength(sentences) - sentences[1].lead - 1

\* A text handed over by a caller: sentences without leading blanks, each
\* closed by one terminator.
TextOf(lengths) ==
  [sentences |-> [i \in 1..Len(lengths) |-> Sentence(0, lengths[i])],
   size      |-> SumOver([i \in 1..Len(lengths) |-> lengths[i] + 1],
                         Len(lengths))]

\* chunks.push(currentChunk.trim()): the chunk as a text. Split again, its
\* first sentence has no leading blank and every other sentence has the
\* blank that followed the terminator before it.
ChunkText(sentences) ==
  [sentences |-> [i \in 1..Len(sentences) |->
                    IF i = 1 THEN Sentence(0, sentences[i].chars)
                    ELSE Sentence(sentences[i].lead + 1, sentences[i].chars)],
   size      |-> TrimmedLength(sentences)]

RECURSIVE KeepLong(_)
\* .filter(s => s.trim().length > 20)
KeepLong(sentences) ==
  IF sentences = << >> THEN << >>
  ELSE (IF Head(sentences).chars > 20 THEN << Head(sentences) >> ELSE << >>)
         \o KeepLong(Tail(sentences))

RECURSIVE BuildChunks(_, _, _)
\* The loop of getChunked3072DEmbedding over the sentences, and the push of
\* the last chunk when its trimmed length is above 50.
BuildChunks(sentences, currentChunk, chunks) ==
  IF sentences = << >>
  THEN IF TrimmedLength(currentChunk) > 50
       THEN Append(chunks, ChunkText(currentChunk))
       ELSE chunks
  ELSE LET testChunk == Append(currentChunk, Head(sentences))
       IN  IF ChunkLength(testChunk) > chunkLimit /\ ChunkLength(currentChunk) > 100
           THEN BuildChunks(Tail(sentences), << Head(sentences) >>,
                            Append(chunks, ChunkText(currentChunk)))
           ELSE BuildChunks(Tail(sentences), testChunk, chunks)

\* The chunks getChunked3072DEmbedding makes of a text.
chunksOf(text) == BuildChunks(KeepLong(text.sentences), << >>, << >>)

\* average3072DEmbeddings: null for no vector, the vector itself for one,
\* else component by component the sum divided by the number of vectors.
average3072DEmbeddings(embs) ==
  IF Len(embs) = 0 THEN << >>
  ELSE IF Len(embs) = 1 THEN embs[1]
  ELSE [i \in 1..Components |->
          SumOver([j \in 1..Len(embs) |-> embs[j][i]], Len(embs)) \div Len(embs)]

\* Lengths of a sentence: one the filter drops, one of which two fit into a
\* chunk, one that is above the chunking threshold by itself.
SentenceLengths == {10, 12000, 40000}

Texts ==
  { TextOf(l) : l \in SeqsUpTo(SentenceLengths, MaxSentences) \ { << >> } }

\* The answers of the embedding API: vectors whose components are 0 or 12.
ChunkVectors == [1..Components -> {0, 12}]

Frame(chunks, i, vectors) == [chunks |-> chunks, i |-> i, vectors |-> vectors]

\* getEmbedding calls getGemini3072DEmbedding with a text.
Gemini3072DCall ==
  /\ chunkCall.pc = "idle"
  /\ \E text \in Texts :
       chunkCall' = [chunkCall EXCEPT !.pc = "enter", !.text = text,
                                      !.target = text]
  /\ UNCHANGED exceptChunk

\* getGemini3072DEmbedding on a text within the threshold: the request is
\* sent.
EnterFetch ==
  /\ chunkCall.pc = "enter"
  /\ ~(chunkCall.target.size > chunkingThreshold)
  /\ chunkCall' = [chunkCall EXCEPT !.pc = "fetch"]
  /\ UNCHANGED exceptChunk

\* getGemini3072DEmbedding on a text above the threshold calls
\* getChunked3072DEmbedding, which builds the chunks and calls
\* getGemini3072DEmbedding on the first (with no chunk it returns what
\* average3072DEmbeddings returns for no vector).
EnterChunked ==
  /\ chunkCall.pc = "enter"
  /\ chunkCall.target.size > chunkingThreshold
  /\ Len(chunkCall.stack) < MaxDepth
  /\ LET chunks == chunksOf(chunkCall.target)
     IN  IF chunks = << >>
         THEN chunkCall' = [chunkCall EXCEPT
                              !.pc = "return",
                              !.value = average3072DEmbeddings(<< >>)]
         ELSE chunkCall' = [chunkCall EXCEPT
                              !.stack = Append(@, Frame(chunks, 1, << >>)),
                              !.target = chunks[1]]
  /\ UNCHANGED exceptChunk

\* The nested calls run without an await between them: with no room left on
\* the call stack the innermost call raises a RangeError, which every
\* awaiting caller rethrows.
StackOverflow ==
  /\ chunkCall.pc = "enter"
  /\ chunkCall.target.size > chunkingThreshold
  /\ Len(chunkCall.stack) = MaxDepth
  /\ chunkCall' = [chunkCall EXCEPT !.pc = "done", !.outcome = "thrown"]
  /\ UNCHANGED exceptChunk

\* The request is answered with the values of a vector.
FetchAnswers ==
  /\ chunkCall.pc = "fetch"
  /\ \E v \in ChunkVectors :
       chunkCall' =
         [chunkCall EXCEPT
            !.pc = "return",
            !.value = v,
            !.fetches =
               Append(@, [depth  |-> Len(chunkCall.stack),
                          index  |-> IF chunkCall.stack = << >> THEN 0
                                     ELSE chunkCall.stack[Len(chunkCall.stack)].i,
                          vector |-> v])]
  /\ UNCHANGED exceptChunk

\* The request fails (not ok, or no values): the call throws, and every
\* awaiting caller with it.
FetchFails ==
  /\ chunkCall.pc = "fetch"
  /\ chunkCall' = [chunkCall EXCEPT !.pc = "done", !.outcome = "thrown",
                                    !.fetchFailed = TRUE]
  /\ UNCHANGED exceptChunk

\* getGemini3072DEmbedding returns into the loop of getChunked3072DEmbedding:
\* the vector is pushed; the loop goes on with the next chunk, or after the
\* last chunk the average is returned. A null among the vectors makes
\* average3072DEmbeddings raise.
ReturnToChunked ==
  /\ chunkCall.pc = "return"
  /\ chunkCall.stack # << >>
  /\ LET depth   == Len(chunkCall.stack)
         frame   == chunkCall.stack[depth]
         vectors == Append(frame.vectors, chunkCall.value)
     IN  IF frame.i < Len(frame.chunks)
         THEN chunkCall' =
                [chunkCall EXCEPT
                   !.pc = "enter",
                   !.stack[depth] = Frame(frame.chunks, frame.i + 1, vectors),
                   !.target = frame.chunks[frame.i + 1]]
         ELSE IF Len(vectors) > 1 /\ \E j \in 1..Len(vectors) : vectors[j] = << >>
         THEN chunkCall' = [chunkCall EXCEPT !.pc = "done", !.outcome = "thrown"]
         ELSE chunkCall' =
                [chunkCall EXCEPT
                   !.stack = SubSeq(@, 1, depth - 1),
                   !.value = average3072DEmbeddings(vectors)]
  /\ UNCHANGED exceptChunk

\* The outermost getGemini3072DEmbedding returns to getEmbedding.
ReturnToCaller ==
  /\ chunkCall.pc = "return"
  /\ chunkCall.stack = << >>
  /\ chunkCall' = [chunkCall EXCEPT
                     !.pc = "done",
                     !.outcome = IF chunkCall.value = << >> THEN "null"
                                 ELSE "vector"]
  /\ UNCHANGED exceptChunk

InitChunk ==
  /\ AgentIdle
  /\ memories = << >>
  /\ StoreIdle
  /\ ServiceIdle
  /\ ComponentsIdle

NextChunk ==
  \/ Gemini3072DCall
  \/ EnterFetch
  \/ EnterChunked
  \/ StackOverflow
  \/ FetchAnswers
  \/ FetchFails
  \/ ReturnToChunked
  \/ ReturnToCaller

SpecChunk == InitChunk /\ [][NextChunk]_vars

\* The answered requests made for the chunks of the text itself.
ChunkFetches ==
  SelectSeq(chunkCall.fetches, LAMBDA f : f.depth = 1)

\* C25: a text above the chunking threshold that is split into k >= 2
\* chunks has each chunk embedded exactly once, in chunk order, and when no
\* request fails the call returns the vector whose component i is the
\* arithmetic mean of component i of the k chunk vectors.
C25_ChunksEmbeddedOnceAndAveraged ==
  LET k == Len(chunksOf(chunkCall.text))
  IN  ( /\ chunkCall.pc = "done"
        /\ chunkCall.text.size > chunkingThreshold
        /\ k >= 2
        /\ ~chunkCall.fetchFailed )
      => /\ chunkCall.outcome = "vector"
         /\ Len(chunkCall.fetches) = k
         /\ \A j \in 1..Len(chunkCall.fetches) :
              /\ chunkCall.fetches[j].depth = 1
              /\ chunkCall.fetches[j].index = j
         /\ \A i \in 1..Components :
              chunkCall.value[i] * k
                = SumOver([j \in 1..k |-> chunkCall.fetches[j].vector[i]], k)

\* C31: every call of getGemini3072DEmbedding made for a chunk is made on a
\* text at or below the chunking threshold, so chunking is entered for the
\* text itself only, never for one of its chunks, and the call stack never
\* runs out.
C31_ChunkCallsWithinThreshold ==
  /\ (chunkCall.pc = "enter" /\ chunkCall.stack # << >>)
        => chunkCall.target.size <= chunkingThreshold
  /\ Len(chunkCall.stack) <= 1
  /\ (chunkCall.pc = "done" /\ chunkCall.outcome = "thrown")
        => chunkCall.fetchFailed

\* C32: every chunk getChunked3072DEmbedding builds for a text above the
\* chunking threshold is at most chunkLimit bytes long.
C32_ChunksWithinLimit ==
  chunkCall.stack # << >>
    => \A j \in 1..Len(chunkCall.stack[1].chunks) :
         chunkCall.stack[1].chunks[j].size <= chunkLimit

(***************************************************************************)
(* cosineSimilarity on numbers: MemoryManager, EmbeddingUtils and the      *)
(* background memory manager                                               *)
(***************************************************************************)
\* The loop of cosineSimilarity: dotProduct, normA and normB.
DotProduct(vecA, vecB) ==
  SumOver([i \in 1..Components |-> vecA.values[i] * vecB.values[i]], Components)

\* Variant: the comparison with 0 never holds.
StrictlyZero_Never(x) == FALSE

\* x === 0
StrictlyZero(x) == x = 0

\* dotProduct / magnitude, with the magnitude by its square: a division by
\* 0 yields no number.
Divide(num, den2) == IF den2 = 0 THEN NaN ELSE Quotient(num, den2)

\* MemoryManager.cosineSimilarity on numbers: 0 for lengths that differ or
\* are not 3072; Math.sqrt(normA) * Math.sqrt(normB) is 0 exactly when
\* normA * normB is.
MemoryManager_cosineSimilarity(vecA, vecB) ==
  IF vecA.length # vecB.length \/ vecA.length # 3072 THEN Zero
  ELSE LET dotProduct == DotProduct(vecA, vecB)
           normA      == DotProduct(vecA, vecA)
           normB      == DotProduct(vecB, vecB)
       IN  IF StrictlyZero(normA * normB) THEN Zero
           ELSE Divide(dotProduct, normA * normB)

\* EmbeddingUtils.cosineSimilarity: throws for lengths that differ; 0 when
\* either norm is 0.
EmbeddingUtils_cosineSimilarity(vecA, vecB) ==
  IF vecA.length # vecB.length THEN CosineThrown
  ELSE LET dotProduct == DotProduct(vecA, vecB)
           normA      == DotProduct(vecA, vecA)
           normB      == DotProduct(vecB, vecB)
       IN  IF StrictlyZero(normA) \/ StrictlyZero(normB) THEN Zero
           ELSE Divide(dotProduct, normA * normB)

\* The background memory manager's cosineSimilarity.
Background_cosineSimilarity(vecA, vecB) ==
  IF vecA.length # vecB.length THEN Zero
  ELSE IF vecA.length # 3072 \/ vecB.length # 3072 THEN Zero
  ELSE LET dotProduct == DotProduct(vecA, vecB)
           normA      == DotProduct(vecA, vecA)
           normB      == DotProduct(vecB, vecB)
       IN  IF StrictlyZero(normA * normB) THEN Zero
           ELSE Divide(dotProduct, normA * normB)

CosineImplementations == {"MemoryManager", "EmbeddingUtils", "background"}

\* The vectors cosineSimilarity is called on: of the dimension of Gemini's
\* embeddings or of the local provider's, with finite components.
NumberVectors ==
  { Numbers(l, v) : l \in {3072, 384}, v \in [1..Components -> {-1, 0, 1}] }

\* One cosineSimilarity call.
CosineCall ==
  /\ ~cosineCall.called
  /\ \E impl \in CosineImplementations, vecA \in NumberVectors, vecB \in NumberVectors :
       cosineCall' =
         [called |-> TRUE, impl |-> impl, vecA |-> vecA, vecB |-> vecB,
          value |-> CASE impl = "MemoryManager" ->
                           MemoryManager_cosineSimilarity(vecA, vecB)
                      [] impl = "EmbeddingUtils" ->
                           EmbeddingUtils_cosineSimilarity(vecA, vecB)
                      [] impl = "background" ->
                           Background_cosineSimilarity(vecA, vecB)]
  /\ UNCHANGED exceptCosine

InitCosine ==
  /\ AgentIdle
  /\ memories = << >>
  /\ StoreIdle
  /\ ServiceIdle
  /\ ComponentsIdle

SpecCosine == InitCosine /\ [][CosineCall]_vars

\* The vector has zero magnitude: all its components are 0.
ZeroMagnitude(vec) == \A i \in 1..Components : vec.values[i] = 0

\* C26: for vectors of equal length, cosineSimilarity returns a number (it
\* does not divide by 0 and does not raise), and the number is exactly 0
\* when either vector has zero magnitude; in each of the three
\* implementations.
C26_ZeroMagnitudeGivesZero ==
  ( /\ cosineCall.called
    /\ cosineCall.vecA.length = cosineCall.vecB.length )
  => /\ cosineCall.value.kind = "number"
     /\ cosineCall.value.den2 > 0
     /\ ( ZeroMagnitude(cosineCall.vecA) \/ ZeroMagnitude(cosineCall.vecB) )
          => cosineCall.value = Zero

\* C26 happens: EmbeddingUtils.cosineSimilarity was called on a vector of
\* zero magnitude and a vector of positive magnitude, both of 3072
\* components, and returned 0.
C26_Witness ==
  /\ cosineCall.called
  /\ cosineCall.impl = "EmbeddingUtils"
  /\ cosineCall.vecA.length = 3072
  /\ cosineCall.vecB.length = 3072
  /\ ZeroMagnitude(cosineCall.vecA)
  /\ ~ZeroMagnitude(cosineCall.vecB)
  /\ cosineCall.value = Zero

(***************************************************************************)
(* The results list of an execution result                                 *)
(***************************************************************************)
RECURSIVE Payloads(_)
\* The data payloads of the recorded step results, one after the other in
\* the order of recording; a result without data has no payload.
Payloads(results) ==
  IF results = << >> THEN << >>
  ELSE (IF Head(results).hasData THEN Head(results).data ELSE << >>)
         \o Payloads(Tail(results))

\* C27: the results list of the execution result executePlan returns is the
\* concatenation of the data payloads of all recorded step results, in the
\* order in which they were recorded.
C27_ResultsConcatenateData ==
  ret.kind = "execution" => ret.results = Payloads(executionResults)

\* C27 happens: executePlan has returned after recording two results with
\* different payloads and a failed result between them.
C27_Witness ==
  /\ ret.kind = "execution"
  /\ Len(executionResults) = 3
  /\ ~executionResults[2].success
  /\ Len(ret.results) = 2
  /\ ret.results[1] # ret.results[2]
  /\ ret.results[1] = executionResults[1].data[1]

(***************************************************************************)
(* decideNextAction on a step with several dependencies                    *)
(***************************************************************************)
\* The dependency lists of the third step of a plan A, B, C.
DependencyLists ==
  { << >>, << "A" >>, << "B" >>, << "A", "B" >>, << "B", "A" >> }

\* Plans A, B, C of three search steps in which C depends on A, on B, on
\* both or on neither.
JoinPlans ==
  { [type  |-> "given",
     steps |-> << Step("A", "search", << >>, TRUE),
                  Step("B", "search", << >>, TRUE),
                  Step("C", "search", deps, TRUE) >>] :
      deps \in DependencyLists }

\* The results recorded for A and B before the call: in any order, failed
\* or successful, each step possibly more than once.
RecordedResults ==
  SeqsUpTo({ [stepId |-> id, success |-> s, hasData |-> TRUE, data |-> << >>] :
               id \in {"A", "B"}, s \in BOOLEAN }, MaxRecorded)

\* decideNextAction is called with the cursor on C.
DecideCall ==
  /\ ~decideCall.called
  /\ \E p \in JoinPlans, results \in RecordedResults :
       \E o \in Outcomes(p.steps[3]) :
         LET d == decideNextAction(p, "C", results, o)
         IN  decideCall' =
               [called |-> TRUE, plan |-> p, currentStep |-> "C",
                executionResults |-> results,
                decision |-> [action |-> d.action, nextStep |-> d.nextStep,
                              result |-> d.result]]
  /\ UNCHANGED exceptDecide

InitDecide ==
  /\ AgentIdle
  /\ memories = << >>
  /\ StoreIdle
  /\ ServiceIdle
  /\ ComponentsIdle

SpecDecide == InitDecide /\ [][DecideCall]_vars

\* The dependency id has a recorded success.
HasRecordedSuccess(dep, results) ==
  \E r \in 1..Len(results) : results[r].stepId = dep /\ results[r].success

\* C28: a 'wait' decision for a step with several dependencies references
\* the first dependency, in declared order, that lacks a recorded success.
C28_WaitNamesFirstUnmet ==
  LET deps    == decideCall.plan.steps[3].dependencies
      results == decideCall.executionResults
  IN  ( /\ decideCall.called
        /\ decideCall.decision.action = "wait"
        /\ Len(deps) > 1 )
      => \E d \in 1..Len(deps) :
           /\ decideCall.decision.nextStep = deps[d]
           /\ ~HasRecordedSuccess(deps[d], results)
           /\ \A e \in 1..(d - 1) : HasRecordedSuccess(deps[e], results)

(***************************************************************************)
(* Background worker: initializeComponents against the message handlers    *)
(***************************************************************************)
\* initializeComponents up to its await: the global memoryManager is
\* assigned an object with empty collections, and initialize issues the
\* get of the stored collections.
InitializeComponentsStart ==
  /\ manager = "unset"
  /\ manager' = "loading"
  /\ memories' = << >>
  /\ embeddings' = << >>
  /\ UNCHANGED << loadResult, exceptWorker >>

\* The storage serves initialize's get: it reads the stored collections as
\* they are now.
StorageGetReads ==
  /\ manager = "loading"
  /\ ~loadResult.read
  /\ loadResult' = [read |-> TRUE, memories |-> storage.memories,
                    embeddings |-> storage.embeddings]
  /\ UNCHANGED << manager, memories, embeddings, exceptWorker >>

\* The get's callback resolves initialize's promise: this.memories and
\* this.embeddings are assigned what was read.
InitializeResolves ==
  /\ manager = "loading"
  /\ loadResult.read
  /\ memories' = loadResult.memories
  /\ embeddings' = loadResult.embeddings
  /\ manager' = "ready"
  /\ UNCHANGED << loadResult, exceptWorker >>

\* An EMBED_PAGE message is handled: memoryManager is set, so
\* handleEmbedPage does not await initializeComponents and calls addMemory.
EmbedPageArrives(w) == manager # "unset" /\ AddMemoryStart(w)

\* A SEARCH_QUERY message is handled: memoryManager is set, so handleSearch
\* calls search with its fixed options on the collections as they are.
SearchQueryArrives ==
  /\ manager # "unset"
  /\ ~searchInput.called
  /\ \E failed \in BOOLEAN, angle \in QueryAngles :
       LET q == IF failed THEN NoVector ELSE Vector(3072, angle)
       IN  /\ searchInput' =
                [called |-> TRUE, queryEmbedding |-> q, embeddingFailed |-> failed,
                 limit |-> 10, type |-> "web_page", minScore |-> 12]
           /\ searchReturn' =
                search(memories, embeddings, failed, q, 10, "web_page", 12)
  /\ UNCHANGED << componentVars, agentVars, memories, storeVars, currentProvider,
                  embedCall, statsReturn >>

\* The worker starts with a collection persisted by an earlier run (or
\* none) and no memory manager.
InitWorker ==
  /\ AgentIdle
  /\ storage \in LoadedStores
  /\ memories = << >>
  /\ embeddings = << >>
  /\ pendingSets = {}
  /\ writer = [w \in Writers |-> IdleWriter]
  /\ nextId = 1
  /\ ServiceIdle
  /\ ComponentsIdle

NextWorker ==
  \/ InitializeComponentsStart
  \/ StorageGetReads
  \/ InitializeResolves
  \/ SearchQueryArrives
  \/ \E w \in Writers :
       \/ EmbedPageArrives(w)
       \/ SessionGetResolves(w)
       \/ EmbeddingResolves(w)
       \/ EmbeddingFails(w)
       \/ StorageSetLands(w)

SpecWorker == InitWorker /\ [][NextWorker]_vars

\* The memories of the sequence, as a set.
MemorySet(mems) == { mems[i] : i \in 1..Len(mems) }

\* The memories an earlier run persisted: those of the stored collections
\* the worker starts with.
PersistedBefore == UNION { MemorySet(st.memories) : st \in LoadedStores }

\* C29: handling EMBED_PAGE and SEARCH_QUERY messages while
\* initializeComponents is loading never drops a persisted memory from the
\* durable snapshot and never drops an added memory from the in-memory
\* collection: no step removes a memory persisted by an earlier run from the
\* durable snapshot, and no step removes a memory from the in-memory
\* collection.
C29_LoadingDropsNothing ==
  [][ /\ (MemorySet(storage.memories) \cap PersistedBefore)
           \subseteq MemorySet(storage'.memories)
      /\ MemorySet(memories) \subseteq MemorySet(memories') ]_vars

(***************************************************************************)
(* A failed addMemory                                                      *)
(***************************************************************************)
\* C30: when addMemory has failed (the embedding call or a storage write
\* raised), its record is in neither in-memory collection, so no snapshot
\* persisted later contains it.
C30_FailedAddLeavesNoTrace ==
  \A w \in Writers :
    writer[w].pc = "failed" =>
      /\ \A i \in 1..Len(memories) : memories[i].id # writer[w].id
      /\ \A i \in 1..Len(embeddings) : embeddings[i].id # writer[w].id
      /\ writer[w].id \notin DurableIds

(***************************************************************************)
(* Agent.searchWebMemory, navigateToPage and highlightText                 *)
(***************************************************************************)
DirectActions == {"searchWebMemory", "navigateToPage", "highlightText"}

\* The type of the memory that records the interaction.
InteractionType(action) ==
  IF action = "searchWebMemory" THEN "search_query"
  ELSE IF action = "navigateToPage" THEN "navigation"
  ELSE "highlight"

\* The value of the catch block of a direct action: {success:false, error}.
DirectCatch == [success |-> FALSE, results |-> << >>, caught |-> TRUE]

\* A direct action is called. searchWebMemory throws into its catch without
\* a memory manager and otherwise calls memoryManager.search; the other two
\* call the action module.
DirectCallStart ==
  /\ directCall.pc = "idle"
  /\ \E a \in DirectActions :
       IF a = "searchWebMemory" /\ ~hasMemoryManager
       THEN directCall' = [directCall EXCEPT !.pc = "done", !.action = a,
                                             !.returned = DirectCatch]
       ELSE directCall' = [directCall EXCEPT
                             !.pc = IF a = "searchWebMemory" THEN "search"
                                    ELSE "act",
                             !.action = a]
  /\ UNCHANGED << agentVars, memories, storeVars, serviceVars, standaloneVars,
                  listenerCall, searchRequest, tabWait >>

\* memoryManager.search resolves (it answers [] on a failure of its own):
\* addMemory is called for the interaction.
DirectSearchCompletes ==
  /\ directCall.pc = "search"
  /\ \E results \in ResultLists :
       directCall' = [directCall EXCEPT !.pc = "record",
                                        !.actionResult = "success",
                                        !.found = results]
  /\ UNCHANGED << agentVars, memories, storeVars, serviceVars, standaloneVars,
                  listenerCall, searchRequest, tabWait >>

\* executeNavigation or executeHighlight resolves with its ToolCallResult.
\* A failure result is returned as it is; after a success addMemory is
\* called on this.memoryManager, which raises a TypeError into the catch
\* when there is none.
DirectActionAnswers ==
  /\ directCall.pc = "act"
  /\ \E o \in {Outcome("ok", << >>), Outcome("fail", << >>)} :
       LET result == IF directCall.action = "navigateToPage"
                     THEN executeNavigation(o)
                     ELSE executeHighlight(o)
       IN  IF ~result.success
           THEN directCall' =
                  [directCall EXCEPT
                     !.pc = "done", !.actionResult = "failure",
                     !.returned = [success |-> FALSE, results |-> << >>,
                                   caught |-> FALSE]]
           ELSE IF ~hasMemoryManager
           THEN directCall' = [directCall EXCEPT !.pc = "done",
                                                 !.actionResult = "success",
                                                 !.returned = DirectCatch]
           ELSE directCall' = [directCall EXCEPT !.pc = "record",
                                                 !.actionResult = "success"]
  /\ UNCHANGED << agentVars, memories, storeVars, serviceVars, standaloneVars,
                  listenerCall, searchRequest, tabWait >>

\* The awaited addMemory resolves: the interaction is pushed and saved, and
\* the action's result is returned.
DirectRecordResolves ==
  /\ directCall.pc = "record"
  /\ LET sessionId == IF storage.sessionId # NULL THEN storage.sessionId
                      ELSE ToString(nextId + 1)
         v    == Vector(3072, 0)
         mems == Push(memories, Memory(nextId, InteractionType(directCall.action),
                                       sessionId, v))
         embs == Push(embeddings, [id |-> nextId, embedding |-> v])
     IN  /\ memories' = mems
         /\ embeddings' = embs
         /\ nextId' = nextId + 2
         /\ storage' = ApplySet([storage EXCEPT !.sessionId = sessionId],
                                [kind |-> "snapshot",
                                 value |-> SnapshotOf(mems, embs)])
  /\ directCall' = [directCall EXCEPT
                      !.pc = "done", !.recorded = "stored",
                      !.returned = [success |-> TRUE,
                                    results |-> directCall.found,
                                    caught  |-> FALSE]]
  /\ UNCHANGED << agentVars, pendingSets, writer, serviceVars, standaloneVars,
                  listenerCall, searchRequest, tabWait >>

\* The awaited addMemory rejects (getSessionId has run, getEmbedding failed:
\* addMemory rethrows, nothing was pushed): the rejection lands in the catch
\* of the action.
DirectRecordRejects ==
  /\ directCall.pc = "record"
  /\ storage' = [storage EXCEPT
                   !.sessionId = IF @ # NULL THEN @ ELSE ToString(nextId + 1)]
  /\ nextId' = nextId + 2
  /\ directCall' = [directCall EXCEPT !.pc = "done", !.recorded = "rejected",
                                      !.returned = DirectCatch]
  /\ UNCHANGED << agentVars, memories, embeddings, pendingSets, writer,
                  serviceVars, standaloneVars, listenerCall, searchRequest,
                  tabWait >>

\* The caller takes the value; the agent is ready for the next call.
DirectCallReturns ==
  /\ directCall.pc = "done"
  /\ nextId <= 2 * MaxRecorded
  /\ directCall' = NoDirectCall
  /\ UNCHANGED << agentVars, memories, storeVars, serviceVars, standaloneVars,
                  listenerCall, searchRequest, tabWait >>

InitDirect ==
  /\ pc = "idle"
  /\ mode = "none"
  /\ query = NoQuery
  /\ context = "object"
  /\ hasMemoryManager \in BOOLEAN
  /\ perceptionResult = [raised |-> FALSE, intent |-> "none"]
  /\ currentPlan = NoPlan
  /\ currentStepId = NULL
  /\ attempt = 0
  /\ executionResults = << >>
  /\ ret = NoReturn
  /\ lastIteration = NoIteration
  /\ dispatches = 0
  /\ waits = 0
  /\ raisedIn = {}
  /\ endedBy = "none"
  /\ memoriesAtStore = 0
  /\ memories = << >>
  /\ StoreIdle
  /\ ServiceIdle
  /\ ComponentsIdle

NextDirect ==
  \/ DirectCallStart
  \/ DirectSearchCompletes
  \/ DirectActionAnswers
  \/ DirectRecordResolves
  \/ DirectRecordRejects
  \/ DirectCallReturns

SpecDirect == InitDirect /\ [][NextDirect]_vars

\* C34: the value of a direct action reflects the action's own outcome:
\* when the memory search completed, searchWebMemory returns success with
\* the results found, and when executeNavigation or executeHighlight
\* succeeded, navigateToPage and highlightText return that success, also
\* when the addMemory call that records the interaction failed.
C34_ResultIsTheActionsOutcome ==
  (hasMemoryManager /\ directCall.pc = "done"
     /\ directCall.actionResult = "success")
    => /\ directCall.returned.success
       /\ directCall.returned.results = directCall.found

(***************************************************************************)
(* Background: the chrome.runtime.onMessage listener                       *)
(***************************************************************************)
\* The messages told apart by the listener: its four types, a type it does
\* not know, and a message that is no object (reading message.type raises).
MessageTypes ==
  {"SEARCH_QUERY", "EMBED_PAGE", "UPDATE_EMBEDDING_SETTINGS",
   "GET_MEMORY_STATS", "UNKNOWN", "NO_OBJECT"}

\* An argument of sendResponse, by what the caller can tell of it.
Response(kind, success, error, results, total) ==
  [kind |-> kind, success |-> success, error |-> error, results |-> results,
   total |-> total]

\* sendResponse({ success: false, error }) of the catch block and of the
\* default case.
FailureResponse == Response("status", FALSE, TRUE, << >>, 0)

\* The value of handleSearch's catch block, and of handleSearch without a
\* memory manager.
handleSearchCatch == << >>

\* The listener is called with a message and runs up to its first await.
\* A message that is no object raises in the switch and is answered by the
\* catch block; an unknown type is answered by the default case. The
\* handlers that need the memory manager start initializeComponents when
\* there is none, which assigns memoryManager before its first await.
MessageArrives ==
  /\ listenerCall.pc = "idle"
  /\ manager \in {"unset", "ready"}
  /\ \E type \in MessageTypes :
       IF type \in {"UNKNOWN", "NO_OBJECT"}
       THEN /\ listenerCall' =
                 [listenerCall EXCEPT
                    !.pc = "done", !.type = type,
                    !.handlerFailed = (type = "NO_OBJECT"),
                    !.responses = Append(@, FailureResponse)]
            /\ UNCHANGED << manager, memories, embeddings >>
       ELSE IF type # "UPDATE_EMBEDDING_SETTINGS" /\ manager = "unset"
       THEN /\ listenerCall' = [listenerCall EXCEPT !.pc = "init",
                                                    !.type = type]
            /\ manager' = "loading"
            /\ memories' = << >>
            /\ embeddings' = << >>
       ELSE /\ listenerCall' = [listenerCall EXCEPT !.pc = "handling",
                                                    !.type = type]
            /\ UNCHANGED << manager, memories, embeddings >>
  /\ UNCHANGED << loadResult, agentVars, storage, pendingSets, writer, nextId,
                  serviceVars, plannerVars, pageVars, chunkCall, cosineCall,
                  decideCall, directCall, searchRequest, tabWait >>

\* The awaited initializeComponents resolves: initialize has assigned the
\* stored collections, or empty ones when loading failed (the failure is
\* logged and not passed on).
ListenerInitializeResolves ==
  /\ listenerCall.pc = "init"
  /\ manager' = "ready"
  /\ \E loaded \in BOOLEAN :
       /\ memories' = IF loaded THEN storage.memories ELSE << >>
       /\ embeddings' = IF loaded THEN storage.embeddings ELSE << >>
  /\ listenerCall' = [listenerCall EXCEPT !.pc = "handling"]
  /\ UNCHANGED << loadResult, agentVars, storage, pendingSets, writer, nextId,
                  serviceVars, plannerVars, pageVars, chunkCall, cosineCall,
                  decideCall, directCall, searchRequest, tabWait >>

\* handleSearch resolves and its value is sent: the mapped results of the
\* memory search, or the empty list after a failure.
SearchQueryAnswered ==
  /\ listenerCall.pc = "handling"
  /\ listenerCall.type = "SEARCH_QUERY"
  /\ \E failed \in BOOLEAN, found \in ResultLists :
       LET results == IF failed THEN handleSearchCatch ELSE found
       IN  listenerCall' =
             [listenerCall EXCEPT
                !.pc = "done", !.handlerFailed = failed,
                !.responses = Append(@, Response("results", FALSE, FALSE,
                                                results, 0))]
  /\ UNCHANGED << workerVars, memories, agentVars, storeVars, serviceVars,
                  plannerVars, pageVars, chunkCall, cosineCall, decideCall,
                  directCall, searchRequest, tabWait >>

\* handleEmbedPage resolves after addMemory has stored the page, and
\* { success: true } is sent.
EmbedPageAnswered ==
  /\ listenerCall.pc = "handling"
  /\ listenerCall.type = "EMBED_PAGE"
  /\ nextId < 2 * MaxRecorded
  /\ LET sessionId == IF storage.sessionId # NULL THEN storage.sessionId
                      ELSE ToString(nextId + 1)
         v    == Vector(3072, 0)
         mems == Push(memories, Memory(nextId, "web_page", sessionId, v))
         embs == Push(embeddings, [id |-> nextId, embedding |-> v])
     IN  /\ memories' = mems
         /\ embeddings' = embs
         /\ nextId' = nextId + 2
         /\ storage' = ApplySet([storage EXCEPT !.sessionId = sessionId],
                                [kind |-> "snapshot",
                                 value |-> SnapshotOf(mems, embs)])
  /\ listenerCall' =
       [listenerCall EXCEPT
          !.pc = "done",
          !.responses = Append(@, Response("status", TRUE, FALSE, << >>, 0))]
  /\ UNCHANGED << workerVars, agentVars, pendingSets, writer, serviceVars,
                  plannerVars, pageVars, chunkCall, cosineCall, decideCall,
                  directCall, searchRequest, tabWait >>

\* handleEmbedPage resolves after a failure (no data, or addMemory
\* rejected): its catch block's { success: false, error } is sent.
EmbedPageFails ==
  /\ listenerCall.pc = "handling"
  /\ listenerCall.type = "EMBED_PAGE"
  /\ listenerCall' =
       [listenerCall EXCEPT
          !.pc = "done", !.handlerFailed = TRUE,
          !.responses = Append(@, FailureResponse)]
  /\ UNCHANGED << workerVars, memories, agentVars, storeVars, serviceVars,
                  plannerVars, pageVars, chunkCall, cosineCall, decideCall,
                  directCall, searchRequest, tabWait >>

\* updateEmbeddingSettings resolves and { success: true } is sent. Without a
\* memory manager nothing is updated; with one, updateSettings stores the
\* settings and reads settings.apiKey, which raises when the message holds
\* no settings: the failure is logged by updateEmbeddingSettings and not
\* passed on.
UpdateSettingsAnswered ==
  /\ listenerCall.pc = "handling"
  /\ listenerCall.type = "UPDATE_EMBEDDING_SETTINGS"
  /\ \E hasSettings \in BOOLEAN :
       listenerCall' =
         [listenerCall EXCEPT
            !.pc = "done",
            !.handlerFailed = (manager = "ready" /\ ~hasSettings),
            !.settingsApplied = (manager = "ready" /\ hasSettings),
            !.responses = Append(@, Response("status", TRUE, FALSE, << >>, 0))]
  /\ UNCHANGED << workerVars, memories, agentVars, storeVars, serviceVars,
                  plannerVars, pageVars, chunkCall, cosineCall, decideCall,
                  directCall, searchRequest, tabWait >>

\* getStats resolves and { stats } is sent.
MemoryStatsAnswered ==
  /\ listenerCall.pc = "handling"
  /\ listenerCall.type = "GET_MEMORY_STATS"
  /\ listenerCall' =
       [listenerCall EXCEPT
          !.pc = "done",
          !.responses = Append(@, Response("stats", FALSE, FALSE, << >>,
                                          getStats(memories).totalMemories))]
  /\ UNCHANGED << workerVars, memories, agentVars, storeVars, serviceVars,
                  plannerVars, pageVars, chunkCall, cosineCall, decideCall,
                  directCall, searchRequest, tabWait >>

\* The listener's call is over; the next message can arrive.
ListenerCallEnds ==
  /\ listenerCall.pc = "done"
  /\ listenerCall' = NoListenerCall
  /\ UNCHANGED << workerVars, memories, agentVars, storeVars, serviceVars,
                  plannerVars, pageVars, chunkCall, cosineCall, decideCall,
                  directCall, searchRequest, tabWait >>

NextListener ==
  \/ MessageArrives
  \/ ListenerInitializeResolves
  \/ SearchQueryAnswered
  \/ EmbedPageAnswered
  \/ EmbedPageFails
  \/ UpdateSettingsAnswered
  \/ MemoryStatsAnswered
  \/ ListenerCallEnds

\* The worker as in InitWorker, with or without its memory manager loaded.
InitListener ==
  /\ AgentIdle
  /\ storage \in LoadedStores
  /\ pendingSets = {}
  /\ writer = [w \in Writers |-> IdleWriter]
  /\ nextId = 1
  /\ ServiceIdle
  /\ PlannerIdle
  /\ PageIdle
  /\ chunkCall = IdleChunkCall
  /\ cosineCall = NoCosineCall
  /\ decideCall = NoDecideCall
  /\ CallsIdle
  /\ loadResult = NothingRead
  /\ \/ manager = "unset" /\ memories = << >> /\ embeddings = << >>
     \/ manager = "ready" /\ memories = storage.memories
                          /\ embeddings = storage.embeddings

SpecListener == InitListener /\ [][NextListener]_vars

\* sendResponse is called at most once for a message, and exactly once when
\* the listener's call is over.
AnsweredOnce ==
  /\ Len(listenerCall.responses) <= 1
  /\ listenerCall.pc = "done" => Len(listenerCall.responses) = 1

\* C35: every message is answered exactly once, and a message whose handler
\* failed is answered with { success: false, error }, or with an empty
\* result list when it is a SEARCH_QUERY.
C35_AnsweredOnceFailuresNormalized ==
  /\ AnsweredOnce
  /\ (listenerCall.pc = "done" /\ listenerCall.handlerFailed)
       => IF listenerCall.type = "SEARCH_QUERY"
          THEN listenerCall.responses[1]
                 = Response("results", FALSE, FALSE, << >>, 0)
          ELSE listenerCall.responses[1] = FailureResponse

(***************************************************************************)
(* ActionModule.executeSearch served by the background's handleSearch      *)
(***************************************************************************)
\* The options a caller hands to executeSearch: limit and minScore (in
\* hundredths) are given or not, type is a content type or null. The
\* planner's search step asks for limit 10 or 20 and the content type of the
\* analysis.
RequestOptions ==
  { [given    |-> {"limit", "minScore"} \cap {IF l = 0 THEN "none" ELSE "limit",
                                              IF m = 0 THEN "none" ELSE "minScore"},
     limit    |-> l,
     type     |-> t,
     minScore |-> m] :
      l \in {0, 10, 20}, t \in {NULL, "web_page", "query"}, m \in {0, 50} }

\* const { limit = 10, type = null, minScore = 0.3 } = options, and the
\* message performSearch sends.
performSearchMessage(options) ==
  [type    |-> "SEARCH_QUERY",
   options |-> [limit    |-> IF "limit" \in options.given THEN options.limit
                             ELSE 10,
                type     |-> options.type,
                minScore |-> IF "minScore" \in options.given
                             THEN options.minScore ELSE 30]]

\* The options handleSearch calls memoryManager.search with. The listener
\* hands handleSearch the query of the message only.
handleSearchOptions(message) ==
  [limit |-> 10, type |-> "web_page", minScore |-> 12]

\* executeSearch is called with options and calls performSearch.
ExecuteSearchCalled ==
  /\ searchRequest.pc = "idle"
  /\ \E options \in RequestOptions :
       searchRequest' = [searchRequest EXCEPT !.pc = "perform",
                                              !.asked = options]
  /\ UNCHANGED << agentVars, memories, storeVars, serviceVars, standaloneVars,
                  directCall, listenerCall, tabWait >>

\* performSearch sends the SEARCH_QUERY message.
PerformSearchSends ==
  /\ searchRequest.pc = "perform"
  /\ searchRequest' =
       [searchRequest EXCEPT
          !.pc = "sent",
          !.message = performSearchMessage(searchRequest.asked)]
  /\ UNCHANGED << agentVars, memories, storeVars, serviceVars, standaloneVars,
                  directCall, listenerCall, tabWait >>

\* The listener serves the message: handleSearch runs the memory search and
\* the results are sent back.
ListenerServesSearch ==
  /\ searchRequest.pc = "sent"
  /\ \E failed \in BOOLEAN, angle \in QueryAngles :
       LET o == handleSearchOptions(searchRequest.message)
           q == IF failed THEN NoVector ELSE Vector(3072, angle)
           results == search(memories, embeddings, failed, q,
                             o.limit, o.type, o.minScore)
       IN  /\ searchInput' =
                [called |-> TRUE, queryEmbedding |-> q,
                 embeddingFailed |-> failed,
                 limit |-> o.limit, type |-> o.type, minScore |-> o.minScore]
           /\ searchReturn' = results
           /\ searchRequest' = [searchRequest EXCEPT !.pc = "answered",
                                                     !.applied = o,
                                                     !.results = results]
  /\ UNCHANGED << agentVars, memories, storeVars, currentProvider, embedCall,
                  statsReturn, standaloneVars, directCall, listenerCall,
                  tabWait >>

\* performSearch returns response.results and executeSearch wraps them in
\* its ToolCallResult.
ExecuteSearchReturns ==
  /\ searchRequest.pc = "answered"
  /\ searchRequest' = [searchRequest EXCEPT !.pc = "done"]
  /\ UNCHANGED << agentVars, memories, storeVars, serviceVars, standaloneVars,
                  directCall, listenerCall, tabWait >>

\* A store of at most one memory, loaded by the background.
InitOptions ==
  /\ AgentIdle
  /\ \E st \in { StoreOf(k) : k \in SeqsUpTo(StoredKinds, 1) } :
       /\ storage = st
       /\ memories = st.memories
       /\ embeddings = st.embeddings
       /\ nextId = Len(st.memories) + 1
  /\ pendingSets = {}
  /\ writer = [w \in Writers |-> IdleWriter]
  /\ ServiceIdle
  /\ ComponentsIdle

NextOptions ==
  \/ ExecuteSearchCalled
  \/ PerformSearchSends
  \/ ListenerServesSearch
  \/ ExecuteSearchReturns

SpecOptions == InitOptions /\ [][NextOptions]_vars

\* C36: the memory search that serves an executeSearch call is run with the
\* limit, type and minScore of the call's options.
C36_OptionsReachTheSearch ==
  searchRequest.pc \in {"answered", "done"}
    => /\ "limit" \in searchRequest.asked.given
            => searchRequest.applied.limit = searchRequest.asked.limit
       /\ searchRequest.applied.type = searchRequest.asked.type
       /\ "minScore" \in searchRequest.asked.given
            => searchRequest.applied.minScore = searchRequest.asked.minScore

(***************************************************************************)
(* NavigationManager.waitForTabLoad                                        *)
(***************************************************************************)
\* What one run of checkTab does with the tab it was given, elapsed
\* milliseconds after the start: the calls of resolve and of reject, and the
\* timers it sets.
PollEffect(settle, scheduled) == [settle |-> settle, scheduled |-> scheduled]

\* Variant: the timeout branch is not closed by an else, so that the next
\* poll is scheduled after the rejection as well.
checkTab_RejectAndSchedule(status, elapsed) ==
  IF status = "complete" THEN PollEffect(<< "resolved" >>, 0)
  ELSE IF elapsed > timeout THEN PollEffect(<< "timeout" >>, 1)
  ELSE PollEffect(<< >>, 1)

\* The body of checkTab after chrome.tabs.get has answered.
checkTab(status, elapsed) ==
  IF status = "complete" THEN PollEffect(<< "resolved" >>, 0)
  ELSE IF elapsed > timeout THEN PollEffect(<< "timeout" >>, 0)
  ELSE PollEffect(<< >>, 1)

\* The time chrome.tabs.get takes to answer, in milliseconds.
GetLatencies == {0, 200}

\* waitForTabLoad is called: startTime is taken and checkTab runs up to its
\* await of chrome.tabs.get.
WaitForTabLoadCalled ==
  /\ ~tabWait.called
  /\ tabWait' = [tabWait EXCEPT !.called = TRUE, !.gets = 1]
  /\ UNCHANGED << agentVars, memories, storeVars, serviceVars, standaloneVars,
                  directCall, listenerCall, searchRequest >>

\* chrome.tabs.get answers with the tab: checkTab resolves, rejects with the
\* timeout, or sets the timer of the next poll.
TabsGetAnswers ==
  /\ tabWait.gets > 0
  /\ \E latency \in GetLatencies, status \in {"loading", "complete"} :
       LET now    == tabWait.elapsed + latency
           effect == checkTab(status, now)
       IN  tabWait' =
             [tabWait EXCEPT
                !.elapsed = now,
                !.gets = @ - 1,
                !.timers = @ + effect.scheduled,
                !.polls = @ + 1,
                !.settlements = @ \o effect.settle,
                !.lastPoll = [status |-> status, elapsed |-> now,
                              failed |-> FALSE,
                              settledBefore |-> tabWait.settlements # << >>,
                              scheduled |-> effect.scheduled]]
  /\ UNCHANGED << agentVars, memories, storeVars, serviceVars, standaloneVars,
                  directCall, listenerCall, searchRequest >>

\* chrome.tabs.get rejects (the tab is gone): the catch block rejects with
\* the error.
TabsGetFails ==
  /\ tabWait.gets > 0
  /\ \E latency \in GetLatencies :
       tabWait' =
         [tabWait EXCEPT
            !.elapsed = @ + latency,
            !.gets = @ - 1,
            !.polls = @ + 1,
            !.settlements = Append(@, "error"),
            !.lastPoll = [status |-> "none", elapsed |-> tabWait.elapsed + latency,
                          failed |-> TRUE,
                          settledBefore |-> tabWait.settlements # << >>,
                          scheduled |-> 0]]
  /\ UNCHANGED << agentVars, memories, storeVars, serviceVars, standaloneVars,
                  directCall, listenerCall, searchRequest >>

\* The timer set by checkTab fires after pollInterval milliseconds and
\* checkTab runs again up to its await.
PollTimerFires ==
  /\ tabWait.timers > 0
  /\ tabWait' = [tabWait EXCEPT !.elapsed = @ + pollInterval,
                                !.timers = @ - 1,
                                !.gets = @ + 1]
  /\ UNCHANGED << agentVars, memories, storeVars, serviceVars, standaloneVars,
                  directCall, listenerCall, searchRequest >>

InitTabWait ==
  /\ AgentIdle
  /\ memories = << >>
  /\ StoreIdle
  /\ ServiceIdle
  /\ ComponentsIdle

NextTabWait ==
  \/ WaitForTabLoadCalled
  \/ TabsGetAnswers
  \/ TabsGetFails
  \/ PollTimerFires

SpecTabWait == InitTabWait /\ [][NextTabWait]_vars

\* C37: waitForTabLoad settles at most once and never polls after settling;
\* a poll that sees the tab complete resolves, a poll that fails rejects, a
\* poll of a tab not complete more than 10000 ms after the start rejects
\* with the timeout, and any other poll sets exactly one timer for the next
\* poll and settles nothing.
C37_SettlesOnceAtTheFirstDecidingPoll ==
  LET last == tabWait.lastPoll
      n    == Len(tabWait.settlements)
  IN  /\ n <= 1
      /\ tabWait.gets + tabWait.timers <= 1
      /\ n = 1 => tabWait.gets + tabWait.timers = 0
      /\ ~last.settledBefore
      /\ tabWait.polls > 0 =>
           IF last.failed
           THEN tabWait.settlements = << "error" >>
           ELSE IF last.status = "complete"
           THEN tabWait.settlements = << "resolved" >>
           ELSE IF last.elapsed > 10000
           THEN tabWait.settlements = << "timeout" >>
           ELSE /\ n = 0
                /\ tabWait.timers + tabWait.gets = 1
                /\ last.scheduled = 1

\* The wait has been rejected with the timeout after a poll made exactly
\* 10000 ms after the start had set the timer of a further poll.
C37_Witness ==
  /\ tabWait.settlements = << "timeout" >>
  /\ tabWait.lastPoll.elapsed = 10500
  /\ tabWait.polls = 22

====
